---------------------------- MODULE Spec2Model ----------------------------
(***************************************************************************)
(* Model of the CoGeLoT data layer:                                        *)
(*   - cogelot/data/collate.py: collate_variable_ndim_batch and the torch  *)
(*     operations it is built from (torch.tensor on the shapes, max,       *)
(*     stack, rot90, fliplr, flatten, torch.nn.functional.pad), and the    *)
(*     composite collators built on it up to                               *)
(*     collate_preprocessed_instances;                                     *)
(*   - cogelot/environment/replay_buffer.py: the ReplayBuffer state        *)
(*     machine;                                                            *)
(*   - cogelot/data/parse.py: VIMAInstanceParser;                          *)
(*   - cogelot/data/transforms/gobbledygook.py:                            *)
(*     randomise_non_special_aspects_in_sequence and the retry loop of     *)
(*     GobbledyGookPromptTokenTransform.                                   *)
(*                                                                         *)
(* A tensor is a record [shape, data]: shape is the sequence of extents    *)
(* and data maps every 0-based index sequence inside the extents to an     *)
(* integer.  The result of a call is a record [kind, exc, shape, data]     *)
(* with kind "tensor", "none", "ok" or "raise" ("pending" before the       *)
(* call).                                                                  *)
(*                                                                         *)
(* SpecCollate is one call of the collator on an enumerated batch;         *)
(* SpecBatch is one call of a composite collator on a list of instances;   *)
(* Spec is the ReplayBuffer under every interleaving of its operations;    *)
(* SpecEncoded is the ReplayBuffer of a caller that stores encodings only, *)
(* followed one call further; SpecParse is one call of the parser on the   *)
(* raw data of an instance directory; SpecShuffle is one call of           *)
(* randomise_non_special_aspects_in_sequence; SpecTokens is one token      *)
(* transform under any sequence of _get_new_token_sequence_for_word calls. *)
(***************************************************************************)
EXTENDS Integers, Sequences, FiniteSets, TLC

VARIABLES
    \* ---- collate_variable_ndim_batch call ----
    batch,            \* the list of tensors passed to the collator
    padding_value,    \* the pad value passed to the collator
    collated,         \* what the call returned or raised
    cpc,              \* "call" before the collator ran, "done" after; "idle"
                      \* for a buffer any caller uses, "encoding" for a buffer
                      \* whose caller stores encodings only
    \* ---- ReplayBuffer fields (replay_buffer.py:13-24) ----
    _observations,
    _actions,
    _success_per_step,
    _encoded_prompt,
    _encoded_prompt_mask,
    _encoded_observations,
    _encoded_observation_masks,
    _encoded_actions,
    _encoded_action_masks,
    \* ---- the caller's view of the buffer ----
    ret,              \* the last call on the buffer: its name and its outcome
    hist,             \* the arguments of the calls made since construction or
                      \* the last reset(), per operation, in call order
    \* ---- VIMAInstanceParser (parse.py:125-231) ----
    keep_null_action, \* the parser's field
    instance_dir,     \* the raw data of the instance directory it is given
    parsed,           \* what parse_from_instance_dir returned or raised
    \* ---- randomise_non_special_aspects_in_sequence (gobbledygook.py:41-65) ----
    word_sequence,    \* the list passed to the function
    is_special_fn,    \* the words is_special_fn answers True for
    shuffled_sequence,  \* the list the function returned
    \* ---- GobbledyGookPromptTokenTransform (gobbledygook.py:89-221) ----
    _timeout,
    _tokenized_word_memory,
    new_token_sequence,  \* the last call of _get_new_token_sequence_for_word
    returned_for      \* per tokenized word, the sequences returned for it

cvars == <<batch, padding_value, collated, cpc>>

bufvars == <<_observations, _actions, _success_per_step, _encoded_prompt,
             _encoded_prompt_mask, _encoded_observations,
             _encoded_observation_masks, _encoded_actions, _encoded_action_masks>>

pvars == <<keep_null_action, instance_dir, parsed>>

gvars == <<word_sequence, is_special_fn, shuffled_sequence, _timeout,
           _tokenized_word_memory, new_token_sequence, returned_for>>

vars == <<batch, padding_value, collated, cpc, _observations, _actions,
          _success_per_step, _encoded_prompt, _encoded_prompt_mask,
          _encoded_observations, _encoded_observation_masks, _encoded_actions,
          _encoded_action_masks, ret, hist, keep_null_action, instance_dir,
          parsed,
          word_sequence, is_special_fn, shuffled_sequence, _timeout,
          _tokenized_word_memory, new_token_sequence, returned_for>>

\* no parser is part of the run
NoParser == keep_null_action = FALSE /\ instance_dir = <<>> /\ parsed = <<>>

\* the specifications that use no prompt transform leave its variables at
\* these values
NoTransform ==
    /\ word_sequence = <<>>
    /\ is_special_fn = {}
    /\ shuffled_sequence = <<>>
    /\ _timeout = 0
    /\ _tokenized_word_memory = <<>>
    /\ new_token_sequence = <<>>
    /\ returned_for = <<>>

------------------------------------------------------------------------------
(* Bounds of the model *)

\* largest rank of a tensor passed to the collator
MaxRank == 2
\* largest extent of an axis of a tensor passed to the collator
MaxExtent == 2
\* largest number of tensors in a batch
MaxBatch == 2
\* largest number of elements of the collated tensor of an enumerated batch
MaxNumel == 8
\* largest number of mutating calls on the buffer between two resets
MaxCalls == 3
\* the same for a caller that stores encodings only
MaxEncodedCalls == 4
\* largest number of rows of action.pkl; obs.pkl has up to one frame more
MaxRawSteps == 3
\* the two feature sizes of the encoded tensors handed to the buffer
SmallFeat == 5
LargeFeat == 7

------------------------------------------------------------------------------
(* Tensors *)

Max(a, b) == IF a >= b THEN a ELSE b

RECURSIVE SeqMax(_)
SeqMax(s) == IF s = <<>> THEN 0 ELSE Max(Head(s), SeqMax(Tail(s)))

\* all 0-based index sequences inside the extents `shape`
RECURSIVE IndexSet(_)
IndexSet(shape) ==
    IF shape = <<>> THEN {<<>>}
    ELSE {<<i>> \o rest : i \in 0..(Head(shape) - 1), rest \in IndexSet(Tail(shape))}

Tensor(shape, data) == [shape |-> shape, data |-> data]

\* results of calls
Returned(t) == [kind |-> "tensor", exc |-> "", shape |-> t.shape, data |-> t.data]
Raised(e) == [kind |-> "raise", exc |-> e, shape |-> <<>>, data |-> <<>>]
NoResult == [kind |-> "pending", exc |-> "", shape |-> <<>>, data |-> <<>>]

------------------------------------------------------------------------------
(* torch operations used by the collator *)

\* torch.tensor([i.shape for i in batch]): a ragged nested list is a ValueError
IsRagged(shapes) == \E i, j \in 1..Len(shapes) : Len(shapes[i]) # Len(shapes[j])

\* the first tensor's extents taken for the maximum
MaxSizePerDimOfFirst(shapes) == shapes[1]

\* shape_per_tensor.max(dim=0).values
MaxSizePerDim(shapes) ==
    [a \in 1..Len(shapes[1]) |->
        SeqMax([i \in 1..Len(shapes) |-> shapes[i][a]])]

\* a deficit that is one too large on every axis
PaddingNeededOffByOne(shapes) ==
    [i \in 1..Len(shapes) |->
        [a \in 1..Len(shapes[i]) |->
            SeqMax([j \in 1..Len(shapes) |-> shapes[j][a]]) - shapes[i][a] + 1]]

\* max_size_per_dim - shape_per_tensor (broadcast over the instances)
PaddingNeeded(shapes) ==
    LET maxs == MaxSizePerDim(shapes)
    IN  [i \in 1..Len(shapes) |->
            [a \in 1..Len(shapes[i]) |-> maxs[a] - shapes[i][a]]]

AllZero(s) == \A a \in 1..Len(s) : s[a] = 0

\* torch.stack([a, b]) of two 1-D tensors of length n: a 2 x n matrix (rows)
Stack2(a, b) == <<a, b>>

\* Tensor.rot90() (k=1, dims=[0,1]) of an r x c matrix: the c x r matrix whose
\* row i is column c-1-i of the input (0-based), i.e. a counter-clockwise turn
Rot90(m) ==
    LET r == Len(m)
        c == Len(m[1])
    IN  [i \in 1..c |-> [j \in 1..r |-> m[j][c + 1 - i]]]

\* Tensor.fliplr(): every row reversed
FlipLR(m) ==
    [i \in 1..Len(m) |-> [j \in 1..Len(m[i]) |-> m[i][Len(m[i]) + 1 - j]]]

\* Tensor.flatten() of a matrix, row-major
RECURSIVE Flatten(_)
Flatten(m) == IF m = <<>> THEN <<>> ELSE Head(m) \o Flatten(Tail(m))

\* the pad list without the rot90: (0, i, 0, j, ...) in axis order, which
\* torch.nn.functional.pad reads from the last axis backwards
PaddingListInAxisOrder(padding_needed_per_dim) ==
    Flatten([a \in 1..Len(padding_needed_per_dim) |->
                <<0, padding_needed_per_dim[a]>>])

\* the pad list built at collate.py:56-62 from the per-axis deficits
PaddingList(padding_needed_per_dim) ==
    Flatten(FlipLR(Rot90(Stack2(padding_needed_per_dim,
                                [a \in 1..Len(padding_needed_per_dim) |-> 0]))))

\* torch.nn.functional.pad(tensor, padding, value=v), constant mode: `padding`
\* holds (left, right) pairs starting from the LAST axis and moving forward.
\* An axis of extent 0 is padded like any other (torch 2 accepts an output
\* extent of 0).
PadLeft(padding, n, a) ==
    LET k == n - a + 1 IN IF 2 * k <= Len(padding) THEN padding[2 * k - 1] ELSE 0

PadRight(padding, n, a) ==
    LET k == n - a + 1 IN IF 2 * k <= Len(padding) THEN padding[2 * k] ELSE 0

FPad(tensor, padding, value) ==
    LET n == Len(tensor.shape)
        newshape == [a \in 1..n |->
            tensor.shape[a] + PadLeft(padding, n, a) + PadRight(padding, n, a)]
        inside(idx) == \A a \in 1..n :
            /\ idx[a] >= PadLeft(padding, n, a)
            /\ idx[a] < PadLeft(padding, n, a) + tensor.shape[a]
        src(idx) == [a \in 1..n |-> idx[a] - PadLeft(padding, n, a)]
    IN  Tensor(newshape,
               [idx \in IndexSet(newshape) |->
                   IF inside(idx) THEN tensor.data[src(idx)] ELSE value])

\* torch.stack(tensors, dim=0): all tensors must have the same shape
CanStack(tensors) == \A i \in 1..Len(tensors) : tensors[i].shape = tensors[1].shape

TorchStack(tensors) ==
    LET newshape == <<Len(tensors)>> \o tensors[1].shape
    IN  Tensor(newshape,
               [idx \in IndexSet(newshape) |-> tensors[idx[1] + 1].data[Tail(idx)]])

StackResult(tensors) ==
    IF CanStack(tensors) THEN Returned(TorchStack(tensors)) ELSE Raised("RuntimeError")

------------------------------------------------------------------------------
(* collate_variable_ndim_batch *)

\* the loop body at collate.py:47-66 for one tensor
PadOne(tensor, padding_needed_per_dim, value) ==
    IF AllZero(padding_needed_per_dim)
    THEN tensor
    ELSE FPad(tensor, PaddingList(padding_needed_per_dim), value)

\* the loop with the tensors that need no padding collected first
PaddedTensorsUnpaddedFirst(b, needed, value) ==
    LET n == Len(b)
        asis == {i \in 1..n : AllZero(needed[i])}
        pos(i) ==
            IF i \in asis
            THEN Cardinality({j \in asis : j <= i})
            ELSE Cardinality(asis) + Cardinality({j \in (1..n) \ asis : j <= i})
    IN  [p \in 1..n |->
            LET i == CHOOSE k \in 1..n : pos(k) = p
            IN  PadOne(b[i], needed[i], value)]

\* the loop at collate.py:46-66: padded_tensors, in the order of the batch
PaddedTensors(b, needed, value) ==
    [i \in 1..Len(b) |-> PadOne(b[i], needed[i], value)]

\* a collator that drops the tensors whose rank differs from the first one's
\* instead of raising
collate_dropping_other_ranks(b, value) ==
    IF Len(b) = 0 THEN Raised("IndexError")
    ELSE
    LET SameRank(t) == Len(t.shape) = Len(b[1].shape)
        kept == SelectSeq(b, SameRank)
        needed == PaddingNeeded([i \in 1..Len(kept) |-> kept[i].shape])
    IN  StackResult(PaddedTensors(kept, needed, value))

\* batch[0].device is an IndexError on an empty list; torch.tensor on shapes
\* of differing length is a ValueError
collate_variable_ndim_batch(b, value) ==
    IF Len(b) = 0 THEN Raised("IndexError")
    ELSE
    LET shapes == [i \in 1..Len(b) |-> b[i].shape]
    IN  IF IsRagged(shapes) THEN Raised("ValueError")
        ELSE
        LET needed == PaddingNeeded(shapes)
        IN  IF \A i \in 1..Len(b) : AllZero(needed[i])
            THEN StackResult(b)
            ELSE StackResult(PaddedTensors(b, needed, value))

------------------------------------------------------------------------------
(* Inputs of the collator *)

\* default pad value of collate_variable_ndim_batch
DefaultPaddingValue == 0
\* default pad value of collate_action_batch
ActionPaddingValue == -100

PadValues == {DefaultPaddingValue, ActionPaddingValue}

\* The collator never reads the values it moves, so every element of every
\* input tensor carries its own value: tensor number i, index idx.  The values
\* are positive, hence different from both pad values.
RECURSIVE Encode(_)
Encode(idx) ==
    IF idx = <<>> THEN 0 ELSE 10 * Encode(SubSeq(idx, 1, Len(idx) - 1)) + idx[Len(idx)]

TaggedTensor(i, shape) ==
    Tensor(shape, [idx \in IndexSet(shape) |-> 1000 * i + Encode(idx) + 1])

TaggedBatch(shapes) == [i \in 1..Len(shapes) |-> TaggedTensor(i, shapes[i])]

ShapesOfRank(r) == [1..r -> 0..MaxExtent]

\* batches whose tensors all have the same rank
EqualRankShapeSeqs ==
    UNION {[1..k -> ShapesOfRank(r)] : k \in 1..MaxBatch, r \in 0..MaxRank}

\* batches whose tensors differ in rank (the extents do not matter there)
CubeShapes == {[a \in 1..r |-> e] : r \in 0..MaxRank, e \in {1, MaxExtent}}

MixedRankShapeSeqs ==
    {s \in UNION {[1..k -> CubeShapes] : k \in 2..MaxBatch} : IsRagged(s)}

\* spec.md section 8, scenario 7: shapes (2,3), (4,1), (2,2)
ScenarioShapes == << <<2, 3>>, <<4, 1>>, <<2, 2>> >>

RECURSIVE Product(_)
Product(s) == IF s = <<>> THEN 1 ELSE Head(s) * Product(Tail(s))

\* number of elements of the tensor the batch collates to
CollatedNumel(shapes) == Len(shapes) * Product(MaxSizePerDim(shapes))

InputShapeSeqs ==
    {s \in EqualRankShapeSeqs : CollatedNumel(s) <= MaxNumel}
        \cup MixedRankShapeSeqs \cup {ScenarioShapes, <<>>}

------------------------------------------------------------------------------
(* Specification of one collator call *)

InitCollate ==
    /\ \E shapes \in InputShapeSeqs : batch = TaggedBatch(shapes)
    /\ padding_value \in PadValues
    /\ collated = NoResult
    /\ cpc = "call"
    /\ _observations = <<>>
    /\ _actions = <<>>
    /\ _success_per_step = <<>>
    /\ _encoded_prompt = <<>>
    /\ _encoded_prompt_mask = <<>>
    /\ _encoded_observations = <<>>
    /\ _encoded_observation_masks = <<>>
    /\ _encoded_actions = <<>>
    /\ _encoded_action_masks = <<>>
    /\ hist = <<>>
    /\ ret = <<>>
    /\ NoParser
    /\ NoTransform

CollateCall ==
    /\ cpc = "call"
    /\ collated' = collate_variable_ndim_batch(batch, padding_value)
    /\ cpc' = "done"
    /\ UNCHANGED <<batch, padding_value, bufvars, ret, hist, pvars, gvars>>

NextCollate == CollateCall

SpecCollate == InitCollate /\ [][NextCollate]_vars

------------------------------------------------------------------------------
(* The composite collators of collate.py *)

\* get_args of the three Literal types, in declaration order
ObjectFeatureName == <<"bbox", "cropped_img", "mask">>
ViewLiteral == <<"front", "top">>
PoseActionType ==
    <<"pose0_position", "pose0_rotation", "pose1_position", "pose1_rotation">>

Range(s) == {s[k] : k \in 1..Len(s)}

\* what a composite collator returned (a nested map whose leaves are the
\* results of the leaf collator) or raised
Batched(value) == [kind |-> "batched", exc |-> "", value |-> value]
Failed(e) == [kind |-> "raise", exc |-> e, value |-> <<>>]

\* the calls a collator made, in order: the first one that raised ends it
Completed(visited, value) ==
    IF \A k \in 1..Len(visited) : visited[k].kind # "raise"
    THEN Batched(value)
    ELSE Failed(visited[CHOOSE k \in 1..Len(visited) :
                    /\ visited[k].kind = "raise"
                    /\ \A j \in 1..(k - 1) : visited[j].kind # "raise"].exc)

\* [image_batch[name][view] for image_batch in image_batches]
LeavesOf(maps, name, view) == [i \in 1..Len(maps) |-> maps[i][name][view]]

\* a collator of object features that collates the front view for both views
collate_object_features_of_front_view(image_batches) ==
    LET output == [name \in Range(ObjectFeatureName) |->
                    [view \in Range(ViewLiteral) |->
                        collate_variable_ndim_batch(
                            LeavesOf(image_batches, name, "front"),
                            DefaultPaddingValue)]]
    IN  Completed([k \in 1..6 |-> output[ObjectFeatureName[((k - 1) \div 2) + 1]]
                                        [ViewLiteral[((k - 1) % 2) + 1]]],
                  output)

collate_object_features(image_batches) ==
    LET output == [name \in Range(ObjectFeatureName) |->
                    [view \in Range(ViewLiteral) |->
                        collate_variable_ndim_batch(
                            LeavesOf(image_batches, name, view),
                            DefaultPaddingValue)]]
    IN  Completed([k \in 1..6 |-> output[ObjectFeatureName[((k - 1) \div 2) + 1]]
                                        [ViewLiteral[((k - 1) % 2) + 1]]],
                  output)

collate_rgb_images(rgb_images) ==
    LET output == [view \in Range(ViewLiteral) |->
                    collate_variable_ndim_batch(
                        [i \in 1..Len(rgb_images) |-> rgb_images[i][view]],
                        DefaultPaddingValue)]
    IN  Completed([k \in 1..2 |-> output[ViewLiteral[k]]], output)

\* a collator of actions that pads with the leaf collator's default
collate_action_batch_padding_zero(batches, value) ==
    LET output == [pose_action_type \in Range(PoseActionType) |->
                    collate_variable_ndim_batch(
                        [i \in 1..Len(batches) |-> batches[i][pose_action_type]],
                        DefaultPaddingValue)]
    IN  Completed([k \in 1..4 |-> output[PoseActionType[k]]], output)

collate_action_batch(batches, value) ==
    LET output == [pose_action_type \in Range(PoseActionType) |->
                    collate_variable_ndim_batch(
                        [i \in 1..Len(batches) |-> batches[i][pose_action_type]],
                        value)]
    IN  Completed([k \in 1..4 |-> output[PoseActionType[k]]], output)

collate_observation_batch(observations) ==
    LET end_effectors == collate_variable_ndim_batch(
            [i \in 1..Len(observations) |-> observations[i].ee],
            DefaultPaddingValue)
        objects == collate_object_features(
            [i \in 1..Len(observations) |-> observations[i].objects])
        rgb == collate_rgb_images(
            [i \in 1..Len(observations) |-> observations[i].rgb])
    IN  Completed(<<end_effectors, objects, rgb>>,
                  [ee |-> end_effectors, objects |-> objects.value,
                   rgb |-> rgb.value])

\* {**object_features, "rgb": rgb}
collate_image_batch(image_batches) ==
    LET object_features == collate_object_features(image_batches)
        rgb == collate_rgb_images(
            [i \in 1..Len(image_batches) |-> image_batches[i].rgb])
    IN  Completed(<<object_features, rgb>>,
                  [name \in Range(ObjectFeatureName) \cup {"rgb"} |->
                    IF name = "rgb" THEN rgb.value
                    ELSE object_features.value[name]])

\* itertools.chain.from_iterable: the lists one after the other
RECURSIVE ChainFromIterable(_)
ChainFromIterable(lists) ==
    IF lists = <<>> THEN <<>>
    ELSE Head(lists) \o ChainFromIterable(Tail(lists))

\* torch pad_sequence with the time axis in front of the batch axis
pad_sequence_time_major(sequences, batch_first) ==
    IF \/ Len(sequences) = 0
       \/ \E i \in 1..Len(sequences) :
            \/ Len(sequences[i].shape) = 0
            \/ Tail(sequences[i].shape) # Tail(sequences[1].shape)
    THEN Raised("RuntimeError")
    ELSE LET max_len == SeqMax([i \in 1..Len(sequences) |->
                                    sequences[i].shape[1]])
             shape == <<max_len, Len(sequences)>> \o Tail(sequences[1].shape)
         IN  Returned(Tensor(shape,
                [idx \in IndexSet(shape) |->
                    IF idx[1] < sequences[idx[2] + 1].shape[1]
                    THEN sequences[idx[2] + 1].data[
                            <<idx[1]>> \o SubSeq(idx, 3, Len(idx))]
                    ELSE 0]))

\* torch.nn.utils.rnn.pad_sequence(sequences, batch_first): the sequences are
\* padded with 0 at the end of their first axis to the longest one and
\* stacked; an empty list, or trailing extents that differ, is a RuntimeError
pad_sequence(sequences, batch_first) ==
    IF \/ Len(sequences) = 0
       \/ \E i \in 1..Len(sequences) :
            \/ Len(sequences[i].shape) = 0
            \/ Tail(sequences[i].shape) # Tail(sequences[1].shape)
    THEN Raised("RuntimeError")
    ELSE LET max_len == SeqMax([i \in 1..Len(sequences) |->
                                    sequences[i].shape[1]])
             shape == (IF batch_first THEN <<Len(sequences), max_len>>
                       ELSE <<max_len, Len(sequences)>>)
                        \o Tail(sequences[1].shape)
             b == IF batch_first THEN 1 ELSE 2
             t == IF batch_first THEN 2 ELSE 1
         IN  Returned(Tensor(shape,
                [idx \in IndexSet(shape) |->
                    IF idx[t] < sequences[idx[b] + 1].shape[1]
                    THEN sequences[idx[b] + 1].data[
                            <<idx[t]>> \o SubSeq(idx, 3, Len(idx))]
                    ELSE 0]))

collate_preprocessed_instances(instances) ==
    LET tasks == [i \in 1..Len(instances) |-> instances[i].task]
        raw_prompt_token_type == ChainFromIterable(
            [i \in 1..Len(instances) |-> instances[i].raw_prompts_token_type])
        word_batch == pad_sequence(
            [i \in 1..Len(instances) |-> instances[i].word_batch], TRUE)
        image_batch == collate_image_batch(
            [i \in 1..Len(instances) |-> instances[i].image_batch])
        actions == collate_action_batch(
            [i \in 1..Len(instances) |-> instances[i].actions],
            ActionPaddingValue)
        observations == collate_observation_batch(
            [i \in 1..Len(instances) |-> instances[i].observations])
    IN  Completed(<<word_batch, image_batch, actions, observations>>,
                  [task |-> tasks,
                   raw_prompts_token_type |-> raw_prompt_token_type,
                   word_batch |-> word_batch,
                   image_batch |-> image_batch.value,
                   actions |-> actions.value,
                   observations |-> observations.value])

------------------------------------------------------------------------------
(* Inputs of the composite collators *)

\* three kinds of preprocessed instance: the number of objects seen from the
\* front and from the top, the side of an image, the number of steps, the
\* number of word tokens, the token types of its prompts and its task
InstanceKinds ==
    { [front |-> 1, top |-> 2, side |-> 1, steps |-> 2, words |-> 3,
       types |-> << <<0, 1>>, <<1>> >>, task |-> "visual_manipulation"],
      [front |-> 2, top |-> 1, side |-> 2, steps |-> 1, words |-> 1,
       types |-> << <<0>> >>, task |-> "rotate"],
      [front |-> 2, top |-> 2, side |-> 1, steps |-> 2, words |-> 2,
       types |-> << <<1>>, <<0>>, <<1, 1>> >>, task |-> "rotate"] }

\* the number of objects per view, as a map
Objects(kind) == [view \in Range(ViewLiteral) |->
                    IF view = "front" THEN kind.front ELSE kind.top]

\* the i-th instance of a batch: every tensor carries values of its own
PreprocessedInstance(i, kind) ==
    LET T(leaf, shape) == TaggedTensor(30 * i + leaf, shape)
        V(view) == IF view = "front" THEN 0 ELSE 1
    IN  [task |-> kind.task,
         raw_prompts_token_type |-> kind.types,
         word_batch |-> T(1, <<kind.words>>),
         image_batch |->
            [bbox |-> [view \in Range(ViewLiteral) |->
                        T(2 + V(view), <<Objects(kind)[view], 2>>)],
             cropped_img |-> [view \in Range(ViewLiteral) |->
                        T(4 + V(view), <<Objects(kind)[view], kind.side>>)],
             mask |-> [view \in Range(ViewLiteral) |->
                        T(6 + V(view), <<Objects(kind)[view]>>)],
             rgb |-> [view \in Range(ViewLiteral) |->
                        T(8 + V(view), <<kind.side, kind.side>>)]],
         actions |->
            [pose0_position |-> T(10, <<kind.steps, 1>>),
             pose0_rotation |-> T(11, <<kind.steps, 2>>),
             pose1_position |-> T(12, <<kind.steps, 1>>),
             pose1_rotation |-> T(13, <<kind.steps, 2>>)],
         observations |->
            [ee |-> T(14, <<kind.steps>>),
             objects |->
                [bbox |-> [view \in Range(ViewLiteral) |->
                        T(15 + V(view), <<kind.steps, Objects(kind)[view]>>)],
                 cropped_img |-> [view \in Range(ViewLiteral) |->
                        T(17 + V(view), <<kind.steps, kind.side>>)],
                 mask |-> [view \in Range(ViewLiteral) |->
                        T(19 + V(view), <<Objects(kind)[view]>>)]],
             rgb |-> [view \in Range(ViewLiteral) |->
                        T(21 + V(view), <<kind.steps, kind.side>>)]]]

\* the lists of at most MaxBatch instances
InstanceLists ==
    UNION {{[i \in 1..n |-> PreprocessedInstance(i, kinds[i])] :
                kinds \in [1..n -> InstanceKinds]} : n \in 0..MaxBatch}

\* a pad value a caller of collate_action_batch passes instead of the default
CallerPaddingValue == 7

\* collate_action_batch is called without a pad value or with one
ActionPadArguments ==
    {[given |-> FALSE, value |-> ActionPaddingValue]}
        \cup {[given |-> TRUE, value |-> v] :
                v \in {DefaultPaddingValue, CallerPaddingValue}}

------------------------------------------------------------------------------
(* Specification of one call of a composite collator *)

InitBatch ==
    /\ batch \in InstanceLists
    /\ padding_value \in ActionPadArguments
    /\ collated = [op |-> "", kind |-> "pending", exc |-> "", value |-> <<>>]
    /\ cpc = "instances"
    /\ _observations = <<>>
    /\ _actions = <<>>
    /\ _success_per_step = <<>>
    /\ _encoded_prompt = <<>>
    /\ _encoded_prompt_mask = <<>>
    /\ _encoded_observations = <<>>
    /\ _encoded_observation_masks = <<>>
    /\ _encoded_actions = <<>>
    /\ _encoded_action_masks = <<>>
    /\ hist = <<>>
    /\ ret = <<>>
    /\ NoParser
    /\ NoTransform

\* a call of one of the collators on the instances, or on the part of each
\* instance that the collator takes
Collate(op, result) ==
    /\ cpc = "instances"
    /\ collated' = [op |-> op, kind |-> result.kind, exc |-> result.exc,
                    value |-> result.value]
    /\ cpc' = "batched"
    /\ UNCHANGED <<batch, padding_value, bufvars, ret, hist, pvars, gvars>>

ImageBatches == [i \in 1..Len(batch) |-> batch[i].image_batch]

CollateObjectFeatures ==
    Collate("collate_object_features", collate_object_features(ImageBatches))

CollateRgbImages ==
    Collate("collate_rgb_images",
            collate_rgb_images([i \in 1..Len(batch) |-> batch[i].image_batch.rgb]))

CollateActionBatch ==
    Collate("collate_action_batch",
            collate_action_batch([i \in 1..Len(batch) |-> batch[i].actions],
                                 padding_value.value))

CollateObservationBatch ==
    Collate("collate_observation_batch",
            collate_observation_batch(
                [i \in 1..Len(batch) |-> batch[i].observations]))

CollateImageBatch ==
    Collate("collate_image_batch", collate_image_batch(ImageBatches))

CollatePreprocessedInstances ==
    Collate("collate_preprocessed_instances",
            collate_preprocessed_instances(batch))

NextBatch ==
    \/ CollateObjectFeatures
    \/ CollateRgbImages
    \/ CollateActionBatch
    \/ CollateObservationBatch
    \/ CollateImageBatch
    \/ CollatePreprocessedInstances

SpecBatch == InitBatch /\ [][NextBatch]_vars

------------------------------------------------------------------------------
(* ReplayBuffer: values and derived views *)

Ok == [kind |-> "ok", exc |-> "", shape |-> <<>>, data |-> <<>>]
None == [kind |-> "none", exc |-> "", shape |-> <<>>, data |-> <<>>]

\* the fields of a model instance before any was built
NoInstance ==
    [encoded_prompt |-> NoResult, encoded_prompt_mask |-> NoResult,
     encoded_observations |-> NoResult,
     encoded_observations_mask |-> NoResult,
     encoded_actions |-> NoResult, encoded_actions_mask |-> NoResult]

\* Tensor.squeeze(0): drops axis 0 when it has size 1, else returns the tensor
Squeeze0(t) ==
    IF Len(t.shape) >= 1 /\ t.shape[1] = 1
    THEN Tensor(Tail(t.shape),
                [idx \in IndexSet(Tail(t.shape)) |-> t.data[<<0>> \o idx]])
    ELSE t

\* Tensor.unsqueeze(0): a new leading axis of size 1
Unsqueeze0(t) ==
    Tensor(<<1>> \o t.shape,
           [idx \in IndexSet(<<1>> \o t.shape) |-> t.data[Tail(idx)]])

\* [tensor.squeeze(0).squeeze(0) for tensor in tensors]
SqueezeEach(tensors) == [i \in 1..Len(tensors) |-> Squeeze0(Squeeze0(tensors[i]))]

\* collated.unsqueeze(0) of what the collator returned; its exception passes on
UnsqueezeResult(c) ==
    IF c.kind = "tensor" THEN Returned(Unsqueeze0(Tensor(c.shape, c.data))) ELSE c

\* ReplayBuffer.__init__: every field is the empty list
FreshBuffer ==
    [observations |-> <<>>, actions |-> <<>>, success_per_step |-> <<>>,
     encoded_prompt |-> <<>>, encoded_prompt_mask |-> <<>>,
     encoded_observations |-> <<>>, encoded_observation_masks |-> <<>>,
     encoded_actions |-> <<>>, encoded_action_masks |-> <<>>]

\* the fields of the buffer as one record
BufferState ==
    [observations |-> _observations, actions |-> _actions,
     success_per_step |-> _success_per_step,
     encoded_prompt |-> _encoded_prompt,
     encoded_prompt_mask |-> _encoded_prompt_mask,
     encoded_observations |-> _encoded_observations,
     encoded_observation_masks |-> _encoded_observation_masks,
     encoded_actions |-> _encoded_actions,
     encoded_action_masks |-> _encoded_action_masks]

\* a reset that forgets the success flags
ResetBufferKeepingSuccess ==
    [observations |-> <<>>, actions |-> <<>>,
     success_per_step |-> _success_per_step,
     encoded_prompt |-> <<>>, encoded_prompt_mask |-> <<>>,
     encoded_observations |-> <<>>, encoded_observation_masks |-> <<>>,
     encoded_actions |-> <<>>, encoded_action_masks |-> <<>>]

\* a reset that leaves the action masks in their list
ResetBufferKeepingActionMasks ==
    [observations |-> <<>>, actions |-> <<>>, success_per_step |-> <<>>,
     encoded_prompt |-> <<>>, encoded_prompt_mask |-> <<>>,
     encoded_observations |-> <<>>, encoded_observation_masks |-> <<>>,
     encoded_actions |-> <<>>, encoded_action_masks |-> _encoded_action_masks]

\* ReplayBuffer.reset: the value it assigns to every field
ResetBuffer ==
    [observations |-> <<>>, actions |-> <<>>, success_per_step |-> <<>>,
     encoded_prompt |-> <<>>, encoded_prompt_mask |-> <<>>,
     encoded_observations |-> <<>>, encoded_observation_masks |-> <<>>,
     encoded_actions |-> <<>>, encoded_action_masks |-> <<>>]

\* the guards of the two write-once setters
PromptAlreadySet == _encoded_prompt # <<>>

\* the mask setter's guard reading the prompt's list
PromptMaskGuardOnPrompt == _encoded_prompt # <<>>

PromptMaskAlreadySet == _encoded_prompt_mask # <<>>

\* the getters: self._encoded_prompt[0] is an IndexError on the empty list
encoded_prompt ==
    IF _encoded_prompt = <<>> THEN Raised("IndexError")
    ELSE Returned(_encoded_prompt[1])

encoded_prompt_mask ==
    IF _encoded_prompt_mask = <<>> THEN Raised("IndexError")
    ELSE Returned(_encoded_prompt_mask[1])

\* the observations padded with the pad value of the action labels
encoded_observations_padded_as_actions ==
    UnsqueezeResult(collate_variable_ndim_batch(
        SqueezeEach(_encoded_observations), ActionPaddingValue))

\* the observations with the absent signal of the actions
encoded_observations_none_when_empty ==
    IF _encoded_observations = <<>> THEN None
    ELSE UnsqueezeResult(collate_variable_ndim_batch(
            SqueezeEach(_encoded_observations), DefaultPaddingValue))

encoded_observations ==
    UnsqueezeResult(collate_variable_ndim_batch(
        SqueezeEach(_encoded_observations), DefaultPaddingValue))

encoded_observation_masks ==
    UnsqueezeResult(collate_variable_ndim_batch(
        SqueezeEach(_encoded_observation_masks), DefaultPaddingValue))

\* the actions collated without the guard for the empty list
encoded_actions_without_guard ==
    UnsqueezeResult(collate_variable_ndim_batch(
        SqueezeEach(_encoded_actions), DefaultPaddingValue))

encoded_actions ==
    IF _encoded_actions = <<>> THEN None
    ELSE UnsqueezeResult(collate_variable_ndim_batch(
            SqueezeEach(_encoded_actions), DefaultPaddingValue))

encoded_actions_mask ==
    IF _encoded_action_masks = <<>> THEN None
    ELSE UnsqueezeResult(collate_variable_ndim_batch(
            SqueezeEach(_encoded_action_masks), DefaultPaddingValue))

\* the success flag of the first step instead of the last
is_successful_of_first_step ==
    IF _success_per_step = <<>> THEN FALSE ELSE _success_per_step[1]

\* self._success_per_step[-1], and False on the IndexError of the empty list
is_successful ==
    IF _success_per_step = <<>> THEN FALSE
    ELSE _success_per_step[Len(_success_per_step)]

\* the number of raw observations instead of encoded ones
num_observations_of_raw ==
    Len(_observations)

num_observations ==
    Len(_encoded_observations)

num_actions ==
    Len(_encoded_actions)

__len__ ==
    num_actions

\* an update that counts the raw actions as the steps
update_vima_instance_counting_raw_actions(vima_instance) ==
    [vima_instance EXCEPT
        !.observations = _observations,
        !.pose_actions = _actions,
        !.total_steps = Len(_actions),
        !.is_successful_at_end = is_successful,
        !.success_per_step = _success_per_step]

\* update_vima_instance: the five fields it assigns; the other fields of the
\* instance stay as they are
update_vima_instance(vima_instance) ==
    [vima_instance EXCEPT
        !.observations = _observations,
        !.pose_actions = _actions,
        !.total_steps = __len__,
        !.is_successful_at_end = is_successful,
        !.success_per_step = _success_per_step]

\* the keyword arguments of ModelInstance(...) in the order they are evaluated
ModelInstanceFields ==
    <<"encoded_prompt", "encoded_prompt_mask", "encoded_observations",
      "encoded_observations_mask", "encoded_actions", "encoded_actions_mask">>

\* ModelInstance(...): the keyword arguments are evaluated in order, so the
\* first accessor that raises ends the call; otherwise the values are packaged
ModelInstance(fields) ==
    LET raising == {i \in 1..6 : fields[ModelInstanceFields[i]].kind = "raise"}
    IN  IF raising = {} THEN [out |-> Ok, instance |-> fields]
        ELSE [out |-> fields[ModelInstanceFields[
                        CHOOSE i \in raising : \A k \in raising : i <= k]],
              instance |-> NoInstance]

\* a model instance whose action fields are always absent
to_model_instance_without_actions ==
    CHOOSE built \in {ModelInstance(fields) : fields \in {
        [encoded_prompt |-> encoded_prompt,
         encoded_prompt_mask |-> encoded_prompt_mask,
         encoded_observations |-> encoded_observations,
         encoded_observations_mask |-> encoded_observation_masks,
         encoded_actions |-> None,
         encoded_actions_mask |-> None]}} : TRUE

\* each accessor is read once, then the values are handed to ModelInstance
to_model_instance ==
    CHOOSE built \in {ModelInstance(fields) : fields \in {
        [encoded_prompt |-> encoded_prompt,
         encoded_prompt_mask |-> encoded_prompt_mask,
         encoded_observations |-> encoded_observations,
         encoded_observations_mask |-> encoded_observation_masks,
         encoded_actions |-> encoded_actions,
         encoded_actions_mask |-> encoded_actions_mask]}} : TRUE

------------------------------------------------------------------------------
(* Inputs of the buffer *)

\* the encoder's prompt and prompt mask: two different values of each
PromptValues == {TaggedTensor(41, <<1, 2>>), TaggedTensor(42, <<1, 3>>)}

PromptMaskValues == {TaggedTensor(51, <<1, 2>>), TaggedTensor(52, <<1, 3>>)}

\* raw observations and raw continuous actions are opaque to the buffer: the
\* j-th call of a kind passes a value of its own
ObservationValues(j) == {[observation |-> j]}

ContinuousActionValues(j) == {[pose |-> j]}

\* shapes of an encoded tensor and of its mask, as one call passes them:
\* batch 1, step 1, then the features.  In the last pair the tensor has one
\* more axis than the others and the mask has no step axis of size 1.
EncodedShapePairs ==
    { << <<1, 1, SmallFeat>>, <<1, 1, SmallFeat>> >>,
      << <<1, 1, LargeFeat>>, <<1, 1, LargeFeat>> >>,
      << <<1, 1, 2, SmallFeat>>, <<1, 2>> >> }

\* the j-th encoded tensor of a kind carries the values of tensor base + j
ObsTag == 0
ObsMaskTag == 10
ActTag == 20
ActMaskTag == 30

\* the (tensor, mask) pairs the j-th call of a kind may pass
EncodedInputs(tag, masktag, j) ==
    {<<TaggedTensor(tag + j, pair[1]), TaggedTensor(masktag + j, pair[2])>> :
        pair \in EncodedShapePairs}

EmptyHist ==
    [set_prompt |-> <<>>, set_mask |-> <<>>, obs |-> <<>>, act |-> <<>>,
     success |-> <<>>, enc_obs |-> <<>>, enc_act |-> <<>>]

Calls ==
    Len(hist.set_prompt) + Len(hist.set_mask) + Len(hist.obs) + Len(hist.act)
        + Len(hist.success) + Len(hist.enc_obs) + Len(hist.enc_act)

\* the buffer exists (no collator call is being modelled on its own)
BufferInUse == cpc \in {"idle", "encoding"}

CallBudget == IF cpc = "encoding" THEN MaxEncodedCalls ELSE MaxCalls

CanMutate == BufferInUse /\ Calls < CallBudget

\* what a call left behind: its name, its tensor result or exception, the
\* number of writing calls before it, and the bool, the int or the model
\* instance it returned when it returns one of these
\* the instance field of a call that updated no VIMAInstance
NoVimaInstance ==
    [task |-> "", observations |-> <<>>, pose_actions |-> <<>>,
     total_steps |-> 0, is_successful_at_end |-> FALSE,
     success_per_step |-> <<>>]

\* the instances a caller hands to update_vima_instance: the instance of the
\* episode's task as it was loaded, with the values of its recorded trajectory
VimaInstances ==
    {[task |-> task, observations |-> <<[observation |-> 90]>>,
      pose_actions |-> <<[index |-> 0, pose |-> 90]>>,
      total_steps |-> 1, is_successful_at_end |-> TRUE,
      success_per_step |-> <<TRUE>>] : task \in {"rotate", "stack"}}

Result(op, out, flag, count, instance) ==
    [op |-> op, out |-> out, pre |-> Calls, flag |-> flag, count |-> count,
     instance |-> instance, vima_instance |-> NoVimaInstance]

Outcome(op, out) == Result(op, out, FALSE, 0, NoInstance)

------------------------------------------------------------------------------
(* ReplayBuffer: operations *)

\* a setter that replaces the stored prompt instead of rejecting the call
SetEncodedPromptOverwriting(value) ==
    /\ CanMutate
    /\ hist' = [hist EXCEPT !.set_prompt = Append(@, value)]
    /\ ret' = Outcome("set_encoded_prompt", Ok)
    /\ _encoded_prompt' = <<value>>
    /\ UNCHANGED <<_observations, _actions, _success_per_step,
                   _encoded_prompt_mask, _encoded_observations,
                   _encoded_observation_masks, _encoded_actions,
                   _encoded_action_masks, cvars, pvars, gvars>>

SetEncodedPrompt(value) ==
    /\ CanMutate
    /\ hist' = [hist EXCEPT !.set_prompt = Append(@, value)]
    /\ IF PromptAlreadySet
       THEN /\ ret' = Outcome("set_encoded_prompt", Raised("ValueError"))
            /\ UNCHANGED _encoded_prompt
       ELSE /\ ret' = Outcome("set_encoded_prompt", Ok)
            /\ _encoded_prompt' = Append(_encoded_prompt, value)
    /\ UNCHANGED <<_observations, _actions, _success_per_step,
                   _encoded_prompt_mask, _encoded_observations,
                   _encoded_observation_masks, _encoded_actions,
                   _encoded_action_masks, cvars, pvars, gvars>>

SetEncodedPromptMask(value) ==
    /\ CanMutate
    /\ hist' = [hist EXCEPT !.set_mask = Append(@, value)]
    /\ IF PromptMaskAlreadySet
       THEN /\ ret' = Outcome("set_encoded_prompt_mask", Raised("ValueError"))
            /\ UNCHANGED _encoded_prompt_mask
       ELSE /\ ret' = Outcome("set_encoded_prompt_mask", Ok)
            /\ _encoded_prompt_mask' = Append(_encoded_prompt_mask, value)
    /\ UNCHANGED <<_observations, _actions, _success_per_step,
                   _encoded_prompt, _encoded_observations,
                   _encoded_observation_masks, _encoded_actions,
                   _encoded_action_masks, cvars, pvars, gvars>>

AddObservation(observation) ==
    /\ CanMutate
    /\ hist' = [hist EXCEPT !.obs = Append(@, observation)]
    /\ _observations' = Append(_observations, observation)
    /\ ret' = Outcome("add_observation", Ok)
    /\ UNCHANGED <<_actions, _success_per_step, _encoded_prompt,
                   _encoded_prompt_mask, _encoded_observations,
                   _encoded_observation_masks, _encoded_actions,
                   _encoded_action_masks, cvars, pvars, gvars>>

\* PoseAction.model_validate({"index": len(self._actions), **continuous_actions})
AddAction(continuous_actions) ==
    /\ CanMutate
    /\ hist' = [hist EXCEPT !.act = Append(@, continuous_actions)]
    /\ _actions' = Append(_actions,
            [index |-> Len(_actions), pose |-> continuous_actions.pose])
    /\ ret' = Outcome("add_action", Ok)
    /\ UNCHANGED <<_observations, _success_per_step, _encoded_prompt,
                   _encoded_prompt_mask, _encoded_observations,
                   _encoded_observation_masks, _encoded_actions,
                   _encoded_action_masks, cvars, pvars, gvars>>

\* update_success_tracker(is_successful=successful)
UpdateSuccessTracker(successful) ==
    /\ CanMutate
    /\ hist' = [hist EXCEPT !.success = Append(@, successful)]
    /\ _success_per_step' = Append(_success_per_step, successful)
    /\ ret' = Outcome("update_success_tracker", Ok)
    /\ UNCHANGED <<_observations, _actions, _encoded_prompt,
                   _encoded_prompt_mask, _encoded_observations,
                   _encoded_observation_masks, _encoded_actions,
                   _encoded_action_masks, cvars, pvars, gvars>>

\* an add that compares the tensor with the stored ones and rejects another
\* shape
AddNextEncodedObservationValidating(encoded_observation, encoded_observation_mask) ==
    /\ CanMutate
    /\ hist' = [hist EXCEPT !.enc_obs = Append(@,
            [tensor |-> encoded_observation, mask |-> encoded_observation_mask])]
    /\ IF \E j \in 1..Len(_encoded_observations) :
                _encoded_observations[j].shape # encoded_observation.shape
       THEN /\ ret' = Outcome("add_next_encoded_observation",
                              Raised("ValueError"))
            /\ UNCHANGED <<_encoded_observations, _encoded_observation_masks>>
       ELSE /\ ret' = Outcome("add_next_encoded_observation", Ok)
            /\ _encoded_observations' =
                    Append(_encoded_observations, encoded_observation)
            /\ _encoded_observation_masks' =
                    Append(_encoded_observation_masks, encoded_observation_mask)
    /\ UNCHANGED <<_observations, _actions, _success_per_step, _encoded_prompt,
                   _encoded_prompt_mask, _encoded_actions,
                   _encoded_action_masks, cvars, pvars, gvars>>

AddNextEncodedObservation(encoded_observation, encoded_observation_mask) ==
    /\ CanMutate
    /\ hist' = [hist EXCEPT !.enc_obs = Append(@,
            [tensor |-> encoded_observation, mask |-> encoded_observation_mask])]
    /\ _encoded_observations' = Append(_encoded_observations, encoded_observation)
    /\ _encoded_observation_masks' =
            Append(_encoded_observation_masks, encoded_observation_mask)
    /\ ret' = Outcome("add_next_encoded_observation", Ok)
    /\ UNCHANGED <<_observations, _actions, _success_per_step, _encoded_prompt,
                   _encoded_prompt_mask, _encoded_actions,
                   _encoded_action_masks, cvars, pvars, gvars>>

\* an add that puts the new action in front of the stored ones
AddNextEncodedActionInFront(encoded_action, encoded_action_mask) ==
    /\ CanMutate
    /\ hist' = [hist EXCEPT !.enc_act = Append(@,
            [tensor |-> encoded_action, mask |-> encoded_action_mask])]
    /\ _encoded_actions' = <<encoded_action>> \o _encoded_actions
    /\ _encoded_action_masks' = <<encoded_action_mask>> \o _encoded_action_masks
    /\ ret' = Outcome("add_next_encoded_action", Ok)
    /\ UNCHANGED <<_observations, _actions, _success_per_step, _encoded_prompt,
                   _encoded_prompt_mask, _encoded_observations,
                   _encoded_observation_masks, cvars, pvars, gvars>>

AddNextEncodedAction(encoded_action, encoded_action_mask) ==
    /\ CanMutate
    /\ hist' = [hist EXCEPT !.enc_act = Append(@,
            [tensor |-> encoded_action, mask |-> encoded_action_mask])]
    /\ _encoded_actions' = Append(_encoded_actions, encoded_action)
    /\ _encoded_action_masks' = Append(_encoded_action_masks, encoded_action_mask)
    /\ ret' = Outcome("add_next_encoded_action", Ok)
    /\ UNCHANGED <<_observations, _actions, _success_per_step, _encoded_prompt,
                   _encoded_prompt_mask, _encoded_observations,
                   _encoded_observation_masks, cvars, pvars, gvars>>

Reset ==
    /\ BufferInUse
    /\ _encoded_prompt' = ResetBuffer.encoded_prompt
    /\ _encoded_prompt_mask' = ResetBuffer.encoded_prompt_mask
    /\ _encoded_observations' = ResetBuffer.encoded_observations
    /\ _encoded_observation_masks' = ResetBuffer.encoded_observation_masks
    /\ _encoded_actions' = ResetBuffer.encoded_actions
    /\ _encoded_action_masks' = ResetBuffer.encoded_action_masks
    /\ _success_per_step' = ResetBuffer.success_per_step
    /\ _observations' = ResetBuffer.observations
    /\ _actions' = ResetBuffer.actions
    /\ hist' = EmptyHist
    /\ ret' = Outcome("reset", Ok)
    /\ UNCHANGED <<cvars, pvars, gvars>>

\* a read of one of the properties: the buffer is left as it is
Read(op, out) ==
    /\ BufferInUse
    /\ ret' = Outcome(op, out)
    /\ UNCHANGED <<bufvars, hist, cvars, pvars, gvars>>

GetEncodedPrompt == Read("encoded_prompt", encoded_prompt)

GetEncodedPromptMask == Read("encoded_prompt_mask", encoded_prompt_mask)

GetEncodedObservations == Read("encoded_observations", encoded_observations)

GetEncodedObservationMasks ==
    Read("encoded_observation_masks", encoded_observation_masks)

GetEncodedActions == Read("encoded_actions", encoded_actions)

GetEncodedActionsMask == Read("encoded_actions_mask", encoded_actions_mask)

\* a read that returns a bool, an int or a model instance
ReadValue(op, out, flag, count, instance) ==
    /\ BufferInUse
    /\ ret' = Result(op, out, flag, count, instance)
    /\ UNCHANGED <<bufvars, hist, cvars, pvars, gvars>>

UpdateVimaInstance(vima_instance) ==
    /\ BufferInUse
    /\ ret' = [Result("update_vima_instance", Ok, FALSE, 0, NoInstance)
                EXCEPT !.vima_instance = update_vima_instance(vima_instance)]
    /\ UNCHANGED <<bufvars, hist, cvars, pvars, gvars>>

GetIsSuccessful == ReadValue("is_successful", Ok, is_successful, 0, NoInstance)

GetNumObservations ==
    ReadValue("num_observations", Ok, FALSE, num_observations, NoInstance)

GetNumActions == ReadValue("num_actions", Ok, FALSE, num_actions, NoInstance)

GetLen == ReadValue("__len__", Ok, FALSE, __len__, NoInstance)

ToModelInstance ==
    \E built \in {to_model_instance} :
        ReadValue("to_model_instance", built.out, FALSE, 0, built.instance)

------------------------------------------------------------------------------
(* Specification of the buffer *)

BufferIsFresh ==
    /\ _observations = FreshBuffer.observations
    /\ _actions = FreshBuffer.actions
    /\ _success_per_step = FreshBuffer.success_per_step
    /\ _encoded_prompt = FreshBuffer.encoded_prompt
    /\ _encoded_prompt_mask = FreshBuffer.encoded_prompt_mask
    /\ _encoded_observations = FreshBuffer.encoded_observations
    /\ _encoded_observation_masks = FreshBuffer.encoded_observation_masks
    /\ _encoded_actions = FreshBuffer.encoded_actions
    /\ _encoded_action_masks = FreshBuffer.encoded_action_masks
    /\ hist = EmptyHist
    /\ ret = [op |-> "__init__", out |-> Ok, pre |-> 0, flag |-> FALSE,
              count |-> 0, instance |-> NoInstance,
              vima_instance |-> NoVimaInstance]

Init ==
    /\ BufferIsFresh
    /\ batch = <<>>
    /\ padding_value = DefaultPaddingValue
    /\ collated = NoResult
    /\ cpc = "idle"
    /\ NoParser
    /\ NoTransform

Next ==
    \/ \E value \in PromptValues : SetEncodedPrompt(value)
    \/ \E value \in PromptMaskValues : SetEncodedPromptMask(value)
    \/ \E j \in {Len(hist.obs) + 1} :
          \E observation \in ObservationValues(j) : AddObservation(observation)
    \/ \E j \in {Len(hist.act) + 1} :
          \E continuous_actions \in ContinuousActionValues(j) :
              AddAction(continuous_actions)
    \/ \E successful \in BOOLEAN : UpdateSuccessTracker(successful)
    \/ \E j \in {Len(hist.enc_obs) + 1} :
          \E in \in EncodedInputs(ObsTag, ObsMaskTag, j) :
              AddNextEncodedObservation(in[1], in[2])
    \/ \E j \in {Len(hist.enc_act) + 1} :
          \E in \in EncodedInputs(ActTag, ActMaskTag, j) :
              AddNextEncodedAction(in[1], in[2])
    \/ Reset
    \/ GetEncodedPrompt
    \/ GetEncodedPromptMask
    \/ GetEncodedObservations
    \/ GetEncodedObservationMasks
    \/ GetEncodedActions
    \/ GetEncodedActionsMask
    \/ GetIsSuccessful
    \/ GetNumObservations
    \/ GetNumActions
    \/ GetLen
    \/ ToModelInstance
    \/ \E vima_instance \in VimaInstances : UpdateVimaInstance(vima_instance)

Spec == Init /\ [][Next]_vars

\* the buffer of a caller that stores the encoder's outputs only and hands
\* them to the model: the prompt, the encoded observations and actions
InitEncoded ==
    /\ BufferIsFresh
    /\ batch = <<>>
    /\ padding_value = DefaultPaddingValue
    /\ collated = NoResult
    /\ cpc = "encoding"
    /\ NoParser
    /\ NoTransform

NextEncoded ==
    \/ \E value \in PromptValues : SetEncodedPrompt(value)
    \/ \E value \in PromptMaskValues : SetEncodedPromptMask(value)
    \/ \E j \in {Len(hist.enc_obs) + 1} :
          \E in \in EncodedInputs(ObsTag, ObsMaskTag, j) :
              AddNextEncodedObservation(in[1], in[2])
    \/ \E j \in {Len(hist.enc_act) + 1} :
          \E in \in EncodedInputs(ActTag, ActMaskTag, j) :
              AddNextEncodedAction(in[1], in[2])
    \/ Reset
    \/ ToModelInstance

SpecEncoded == InitEncoded /\ [][NextEncoded]_vars

------------------------------------------------------------------------------
(* VIMAInstanceParser (parse.py) *)

\* what the parser returned or raised
Parsed(value) == [kind |-> "instance", exc |-> "", value |-> value]
ParseRaised(e) == [kind |-> "raise", exc |-> e, value |-> <<>>]

\* parse_pose_actions: one PoseAction per row of action.pkl, indexed from 0
parse_pose_actions(dir) ==
    [action_idx \in 1..Len(dir.actions) |->
        [index |-> action_idx - 1, pose |-> dir.actions[action_idx],
         null |-> FALSE]]

\* parse_observations: one Observation per frame of obs.pkl, indexed from 0
parse_observations(dir) ==
    [obs_idx \in 1..Len(dir.observations) |->
        [index |-> obs_idx - 1, frame |-> dir.observations[obs_idx]]]

\* PoseAction.get_null_action(): one more action, not read from the data
NullAction == [index |-> 0, pose |-> 0, null |-> TRUE]

_parse_pose_actions(dir) ==
    IF keep_null_action THEN Append(parse_pose_actions(dir), NullAction)
    ELSE parse_pose_actions(dir)

\* observations[:num_pose_actions]
SliceTo(s, n) == SubSeq(s, 1, IF n < Len(s) THEN n ELSE Len(s))

\* a parser that keeps every observation whatever keep_null_action is
_parse_observations_keeping_all(dir, num_pose_actions) ==
    parse_observations(dir)

_parse_observations(dir, num_pose_actions) ==
    IF ~keep_null_action
    THEN SliceTo(parse_observations(dir), num_pose_actions)
    ELSE parse_observations(dir)

\* a tracker that marks the first steps instead of the last ones
_parse_success_per_step_marking_first(number_of_actions, is_successful_at_end) ==
    IF is_successful_at_end /\ number_of_actions < (IF keep_null_action THEN 2 ELSE 1)
    THEN ParseRaised("IndexError")
    ELSE Parsed([k \in 1..number_of_actions |->
            /\ is_successful_at_end
            /\ (k = 1 \/ (keep_null_action /\ k = 2))])

\* _parse_success_per_step(num_actions=..., is_successful_at_end=...):
\* tracker[-1] = True and tracker[-2] = True are an IndexError on a list that
\* is too short
_parse_success_per_step(number_of_actions, is_successful_at_end) ==
    LET tracker == [k \in 1..number_of_actions |-> FALSE]
    IN  IF ~is_successful_at_end THEN Parsed(tracker)
        ELSE IF number_of_actions < 1 THEN ParseRaised("IndexError")
        ELSE IF keep_null_action /\ number_of_actions < 2
             THEN ParseRaised("IndexError")
        ELSE Parsed([k \in 1..number_of_actions |->
                \/ k = number_of_actions
                \/ keep_null_action /\ k = number_of_actions - 1])

parse_from_instance_dir(dir) ==
    LET pose_actions == _parse_pose_actions(dir)
        observations == _parse_observations(dir, Len(pose_actions))
        success_per_step ==
            _parse_success_per_step(Len(pose_actions), dir.success)
    IN  IF Len(observations) # Len(pose_actions) THEN ParseRaised("ValueError")
        ELSE IF success_per_step.kind = "raise" THEN success_per_step
        ELSE Parsed([pose_actions |-> pose_actions,
                     observations |-> observations,
                     is_successful_at_end |-> dir.success,
                     success_per_step |-> success_per_step.value])

\* the raw data of an instance directory: the rows of action.pkl, the frames
\* of obs.pkl and the success flag of trajectory.pkl
InstanceDirs ==
    {[actions |-> [k \in 1..a |-> 100 + k],
      observations |-> [k \in 1..o |-> 200 + k],
      success |-> s] :
        a \in 0..MaxRawSteps, o \in 0..(MaxRawSteps + 1), s \in BOOLEAN}

InitParse ==
    /\ keep_null_action \in BOOLEAN
    /\ instance_dir \in InstanceDirs
    /\ parsed = [kind |-> "pending", exc |-> "", value |-> <<>>]
    /\ cpc = "parse"
    /\ batch = <<>>
    /\ padding_value = DefaultPaddingValue
    /\ collated = NoResult
    /\ _observations = <<>>
    /\ _actions = <<>>
    /\ _success_per_step = <<>>
    /\ _encoded_prompt = <<>>
    /\ _encoded_prompt_mask = <<>>
    /\ _encoded_observations = <<>>
    /\ _encoded_observation_masks = <<>>
    /\ _encoded_actions = <<>>
    /\ _encoded_action_masks = <<>>
    /\ hist = <<>>
    /\ ret = <<>>
    /\ NoTransform

ParseFromInstanceDir ==
    /\ cpc = "parse"
    /\ parsed' = parse_from_instance_dir(instance_dir)
    /\ cpc' = "parsed"
    /\ UNCHANGED <<batch, padding_value, collated, bufvars, ret, hist,
                   keep_null_action, instance_dir, gvars>>

NextParse == ParseFromInstanceDir

SpecParse == InitParse /\ [][NextParse]_vars

------------------------------------------------------------------------------
(* randomise_non_special_aspects_in_sequence (gobbledygook.py) *)

\* longest word sequence passed to the function
MaxWords == 3

\* the words of a prompt; "{obj}" stands for a placeholder, which the
\* callers' is_special_fn locks
Words == {"put", "the", "{obj}"}

WordSequences == UNION {[1..n -> Words] : n \in 0..MaxWords}

\* every is_special_fn over the words, as the set of words it holds for
IsSpecialFns == SUBSET Words

\* the indices the first loop appends to locked_positions
locked_positions(sequence, special) ==
    {word_index \in 1..Len(sequence) : sequence[word_index] \in special}

\* the words the first loop appends to unlocked_words, in their order
unlocked_words(sequence, special) ==
    SelectSeq(sequence, LAMBDA word : word \notin special)

\* random.shuffle(list): every ordering of the list is a possible outcome
random_shuffle(list) ==
    {[i \in 1..Len(list) |-> list[q[i]]] :
        q \in {f \in [1..Len(list) -> 1..Len(list)] :
                \A i, j \in 1..Len(list) : f[i] = f[j] => i = j}}

\* the second loop from index idx on: every index that is not locked takes
\* unlocked.pop(0)
RECURSIVE PutBack(_, _, _, _)
PutBack(shuffled, locked, unlocked, idx) ==
    IF idx > Len(shuffled) THEN shuffled
    ELSE IF idx \notin locked
    THEN PutBack([shuffled EXCEPT ![idx] = Head(unlocked)], locked,
                 Tail(unlocked), idx + 1)
    ELSE PutBack(shuffled, locked, unlocked, idx + 1)

\* a function that locks no position and shuffles the whole list
randomise_every_aspect_in_sequence(sequence, special) ==
    {[word_sequence |-> sequence, shuffled_sequence |-> order] :
        order \in random_shuffle(sequence)}

\* the possible outcomes of one call: the caller's list after the call and
\* the list returned, which starts as word_sequence.copy()
randomise_non_special_aspects_in_sequence(sequence, special) ==
    {[word_sequence |-> sequence,
      shuffled_sequence |->
        PutBack(sequence, locked_positions(sequence, special), order, 1)] :
        order \in random_shuffle(unlocked_words(sequence, special))}

InitShuffle ==
    /\ word_sequence \in WordSequences
    /\ is_special_fn \in IsSpecialFns
    /\ shuffled_sequence = <<>>
    /\ _timeout = 0
    /\ _tokenized_word_memory = <<>>
    /\ new_token_sequence = <<>>
    /\ returned_for = <<>>
    /\ cpc = "shuffle"
    /\ batch = <<>>
    /\ padding_value = DefaultPaddingValue
    /\ collated = NoResult
    /\ _observations = <<>>
    /\ _actions = <<>>
    /\ _success_per_step = <<>>
    /\ _encoded_prompt = <<>>
    /\ _encoded_prompt_mask = <<>>
    /\ _encoded_observations = <<>>
    /\ _encoded_observation_masks = <<>>
    /\ _encoded_actions = <<>>
    /\ _encoded_action_masks = <<>>
    /\ hist = <<>>
    /\ ret = <<>>
    /\ NoParser

RandomiseNonSpecialAspectsInSequence ==
    /\ cpc = "shuffle"
    /\ \E outcome \in randomise_non_special_aspects_in_sequence(
                        word_sequence, is_special_fn) :
        /\ word_sequence' = outcome.word_sequence
        /\ shuffled_sequence' = outcome.shuffled_sequence
    /\ cpc' = "shuffled"
    /\ UNCHANGED <<batch, padding_value, collated, bufvars, ret, hist, pvars,
                   is_special_fn, _timeout, _tokenized_word_memory,
                   new_token_sequence, returned_for>>

NextShuffle == RandomiseNonSpecialAspectsInSequence

SpecShuffle == InitShuffle /\ [][NextShuffle]_vars

------------------------------------------------------------------------------
(* GobbledyGookPromptTokenTransform._get_new_token_sequence_for_word
   (gobbledygook.py) *)

\* largest timeout a transform is constructed with
MaxTimeout == 1

\* the token ids of the vocabulary that are not special; 0 is a special one
_non_special_token_ids == {1, 2}

\* the tokenized words a caller passes: two of ordinary tokens and one that
\* holds a special token
TokenizedWords == {<<1>>, <<1, 2>>, <<0>>}

\* what a call returned or raised
TokenSequence(value) == [kind |-> "return", exc |-> "", value |-> value]
TokenError(e) == [kind |-> "raise", exc |-> e, value |-> <<>>]

\* _randomise_token_ids_in_sequence: a sequence with a special token comes
\* back as it is; otherwise random tokens are appended until the text
\* re-tokenizes to len(sequence) tokens, and WordTooLongError is raised when
\* it re-tokenizes to more.  The tokenizer is not part of the repository:
\* every non-empty sequence of non-special tokens of up to len(sequence)
\* tokens and the error are possible outcomes of one attempt.
_randomise_token_ids_in_sequence(sequence) ==
    IF \E k \in 1..Len(sequence) : sequence[k] \notin _non_special_token_ids
    THEN {TokenSequence(sequence)}
    ELSE IF sequence = <<>> THEN {TokenSequence(<<>>)}
    ELSE {TokenError("WordTooLongError")} \cup
         {TokenSequence(new) :
            new \in UNION {[1..n -> _non_special_token_ids] :
                            n \in 1..Len(sequence)}}

\* _get_random_alternative_from_memory: random.choice over the tuple of the
\* remembered sequences, IndexError when there is none
_get_random_alternative_from_memory(memory, tokenized_word) ==
    IF tokenized_word \notin DOMAIN memory THEN {TokenError("KeyError")}
    ELSE IF memory[tokenized_word] = {} THEN {TokenError("IndexError")}
    ELSE {TokenSequence(alternative) : alternative \in memory[tokenized_word]}

\* how a call ended: its outcome, the number of calls of
\* _randomise_token_ids_in_sequence it made and where the sequence came from
Ended(outcome, attempts, source) ==
    [kind |-> outcome.kind, exc |-> outcome.exc, value |-> outcome.value,
     attempts |-> attempts, source |-> source]

\* a loop that gives up one attempt earlier (iteration_count < timeout)
RECURSIVE WhileIterationCountBelowTimeout(_, _, _)
WhileIterationCountBelowTimeout(memory, tokenized_word, iteration_count) ==
    IF iteration_count < _timeout
    THEN LET attempt == _randomise_token_ids_in_sequence(tokenized_word)
         IN  {Ended(outcome, iteration_count + 1, "attempt") :
                outcome \in {o \in attempt : o.kind = "return"}}
             \cup
             (IF TokenError("WordTooLongError") \in attempt
              THEN WhileIterationCountBelowTimeout(memory, tokenized_word,
                                                   iteration_count + 1)
              ELSE {})
    ELSE {Ended(IF outcome.kind = "raise" THEN TokenError("RuntimeError")
                ELSE outcome, iteration_count, "memory") :
            outcome \in _get_random_alternative_from_memory(memory,
                                                            tokenized_word)}

\* the while/else of _get_new_token_sequence_for_word from iteration_count
\* on: the possible ends of the call
RECURSIVE WhileIterationCountWithinTimeout(_, _, _)
WhileIterationCountWithinTimeout(memory, tokenized_word, iteration_count) ==
    IF iteration_count <= _timeout
    THEN LET attempt == _randomise_token_ids_in_sequence(tokenized_word)
         IN  {Ended(outcome, iteration_count + 1, "attempt") :
                outcome \in {o \in attempt : o.kind = "return"}}
             \cup
             (IF TokenError("WordTooLongError") \in attempt
              THEN WhileIterationCountWithinTimeout(memory, tokenized_word,
                                                    iteration_count + 1)
              ELSE {})
    ELSE {Ended(IF outcome.kind = "raise" THEN TokenError("RuntimeError")
                ELSE outcome, iteration_count, "memory") :
            outcome \in _get_random_alternative_from_memory(memory,
                                                            tokenized_word)}

\* if tokenized_word not in self._tokenized_word_memory: ... = set()
WithWord(memory, tokenized_word) ==
    IF tokenized_word \in DOMAIN memory THEN memory
    ELSE memory @@ (tokenized_word :> {})

\* self._tokenized_word_memory[tokenized_word].add(random_token_sequence)
Remember(memory, tokenized_word, sequence) ==
    [memory EXCEPT ![tokenized_word] = @ \cup {sequence}]

InitTokens ==
    /\ _timeout \in 0..MaxTimeout
    /\ _tokenized_word_memory = <<>>
    /\ new_token_sequence = <<>>
    /\ returned_for = <<>>
    /\ word_sequence = <<>>
    /\ is_special_fn = {}
    /\ shuffled_sequence = <<>>
    /\ cpc = "tokens"
    /\ batch = <<>>
    /\ padding_value = DefaultPaddingValue
    /\ collated = NoResult
    /\ _observations = <<>>
    /\ _actions = <<>>
    /\ _success_per_step = <<>>
    /\ _encoded_prompt = <<>>
    /\ _encoded_prompt_mask = <<>>
    /\ _encoded_observations = <<>>
    /\ _encoded_observation_masks = <<>>
    /\ _encoded_actions = <<>>
    /\ _encoded_action_masks = <<>>
    /\ hist = <<>>
    /\ ret = <<>>
    /\ NoParser

GetNewTokenSequenceForWord(tokenized_word) ==
    /\ cpc = "tokens"
    /\ \E memory \in {WithWord(_tokenized_word_memory, tokenized_word)} :
        \E end \in WhileIterationCountWithinTimeout(memory, tokenized_word, 0) :
            /\ new_token_sequence' =
                    end @@ [word |-> tokenized_word]
            /\ IF end.kind = "return"
               THEN /\ _tokenized_word_memory' =
                            Remember(memory, tokenized_word, end.value)
                    /\ returned_for' =
                            Remember(WithWord(returned_for, tokenized_word),
                                     tokenized_word, end.value)
               ELSE /\ _tokenized_word_memory' = memory
                    /\ UNCHANGED returned_for
    /\ UNCHANGED <<cvars, bufvars, ret, hist, pvars, _timeout, word_sequence,
                   is_special_fn, shuffled_sequence>>

NextTokens ==
    \E tokenized_word \in TokenizedWords :
        GetNewTokenSequenceForWord(tokenized_word)

SpecTokens == InitTokens /\ [][NextTokens]_vars

------------------------------------------------------------------------------
(* Claims about collate_variable_ndim_batch, checked under SpecCollate *)

EqualRank(b) == \A i, j \in 1..Len(b) : Len(b[i].shape) = Len(b[j].shape)

EqualShape(b) == \A i \in 1..Len(b) : b[i].shape = b[1].shape

InExtents(idx, shape) == \A a \in 1..Len(shape) : idx[a] < shape[a]

Numel(t) == Product(t.shape)

CollatedEqualRank == cpc = "done" /\ Len(batch) >= 1 /\ EqualRank(batch)

Deficit(i, a) == collated.shape[a + 1] - batch[i].shape[a]

\* C1: for a non-empty batch of equal rank the collator returns a tensor that,
\* for every i, equals batch[i] at every index inside batch[i]'s extents and
\* the pad value at every other index: the padding is at the high-index end of
\* each axis and the deficit of an axis goes to that axis.
PaddingCorrect ==
    CollatedEqualRank =>
        /\ collated.kind = "tensor"
        /\ Len(collated.shape) = Len(batch[1].shape) + 1
        /\ DOMAIN collated.data = IndexSet(collated.shape)
        /\ \A i \in 1..Len(batch) :
            /\ \A a \in 1..Len(batch[i].shape) : Deficit(i, a) >= 0
            /\ \A idx \in IndexSet(Tail(collated.shape)) :
                collated.data[<<i - 1>> \o idx] =
                    IF InExtents(idx, batch[i].shape)
                    THEN batch[i].data[idx]
                    ELSE padding_value

\* a tensor with data was padded on one of two axes and not on the other,
\* with the pad value -100
PaddedOnOneAxisOnly ==
    /\ CollatedEqualRank
    /\ collated.kind = "tensor"
    /\ padding_value = ActionPaddingValue
    /\ \E i \in 1..Len(batch) :
        /\ Len(batch[i].shape) = 2
        /\ Numel(batch[i]) > 0
        /\ Deficit(i, 1) > 0
        /\ Deficit(i, 2) = 0

\* C2: the collated shape is [len(batch)] followed by the elementwise maximum
\* of the per-axis extents; shapes (2,3), (4,1), (2,2) give (3,4,3).
ShapeIsBatchThenMax ==
    CollatedEqualRank =>
        /\ collated.kind = "tensor"
        /\ Len(collated.shape) = Len(batch[1].shape) + 1
        /\ collated.shape[1] = Len(batch)
        /\ \A a \in 1..Len(batch[1].shape) :
            /\ \A i \in 1..Len(batch) : batch[i].shape[a] <= collated.shape[a + 1]
            /\ \E i \in 1..Len(batch) : batch[i].shape[a] = collated.shape[a + 1]
        /\ ([i \in 1..Len(batch) |-> batch[i].shape] = ScenarioShapes
                => collated.shape = <<3, 4, 3>>)

\* the scenario of the specification was collated to shape (3,4,3)
ScenarioCollated ==
    /\ cpc = "done"
    /\ [i \in 1..Len(batch) |-> batch[i].shape] = ScenarioShapes
    /\ collated.kind = "tensor"
    /\ collated.shape = <<3, 4, 3>>

\* C3: when all elements share one shape (always so for a batch of one) the
\* result is the elements stacked in input order, of shape [len(batch)] + that
\* shape, with no pad value anywhere, whatever pad value was passed.
StackedWhenShapesAgree ==
    (cpc = "done" /\ Len(batch) >= 1 /\ EqualShape(batch)) =>
        /\ collated.kind = "tensor"
        /\ collated.shape = <<Len(batch)>> \o batch[1].shape
        /\ DOMAIN collated.data = IndexSet(<<Len(batch)>> \o batch[1].shape)
        /\ \A i \in 1..Len(batch) : \A idx \in IndexSet(batch[i].shape) :
            collated.data[<<i - 1>> \o idx] = batch[i].data[idx]

\* two tensors of one shape, with data, were collated with the pad value -100
SameShapeBatchCollated ==
    /\ cpc = "done"
    /\ Len(batch) >= 2
    /\ EqualShape(batch)
    /\ Numel(batch[1]) > 1
    /\ padding_value = ActionPaddingValue
    /\ collated.kind = "tensor"

IndexPermutations(n) ==
    {q \in [1..n -> 1..n] : \A i, j \in 1..n : q[i] = q[j] => i = j}

PermuteBatch(b, q) == [i \in 1..Len(b) |-> b[q[i]]]

\* a result with axis 0 permuted by q; an exception is left as it is
PermuteAxis0(c, q) ==
    IF c.kind = "tensor"
    THEN [c EXCEPT !.data =
            [idx \in DOMAIN c.data |-> c.data[<<q[idx[1] + 1] - 1>> \o Tail(idx)]]]
    ELSE c

\* C4: collating a permuted batch gives the collation of the batch with axis
\* 0 permuted the same way, also when only some elements need padding.
OrderPreserved ==
    (cpc = "done" /\ Len(batch) >= 1) =>
        \A q \in IndexPermutations(Len(batch)) :
            collate_variable_ndim_batch(PermuteBatch(batch, q), padding_value)
                = PermuteAxis0(collated, q)

\* a batch whose first element needed padding and whose second needed none
MixedPaddingCollated ==
    /\ CollatedEqualRank
    /\ collated.kind = "tensor"
    /\ Len(batch) >= 2
    /\ batch[1].shape # Tail(collated.shape)
    /\ batch[2].shape = Tail(collated.shape)
    /\ Numel(batch[1]) > 0

\* C5: a batch whose elements differ in rank makes the call raise; no tensor
\* is returned.
DifferingRankRaises ==
    (cpc = "done" /\ Len(batch) >= 1 /\ ~EqualRank(batch)) =>
        collated.kind = "raise"

\* a batch of differing ranks was passed and the call raised
DifferingRankBatchRaised ==
    /\ cpc = "done"
    /\ Len(batch) >= 2
    /\ ~EqualRank(batch)
    /\ collated.kind = "raise"
    /\ collated.exc = "ValueError"

------------------------------------------------------------------------------
(* Claims about ReplayBuffer, checked under Spec *)

\* C6: the encoded_prompt setter raises iff a prompt was already set since
\* construction or the last reset(); otherwise it succeeds and the getter
\* returns the value that was set.  The same holds for encoded_prompt_mask,
\* and neither setter depends on the other field.
WriteOnceSetters ==
    /\ ret.op = "set_encoded_prompt" =>
        /\ ret.out.kind = "raise" <=> Len(hist.set_prompt) > 1
        /\ ret.out.kind = "ok" <=> Len(hist.set_prompt) = 1
    /\ ret.op = "set_encoded_prompt_mask" =>
        /\ ret.out.kind = "raise" <=> Len(hist.set_mask) > 1
        /\ ret.out.kind = "ok" <=> Len(hist.set_mask) = 1
    /\ (ret.op = "encoded_prompt" /\ Len(hist.set_prompt) >= 1) =>
        ret.out = Returned(hist.set_prompt[1])
    /\ (ret.op = "encoded_prompt_mask" /\ Len(hist.set_mask) >= 1) =>
        ret.out = Returned(hist.set_mask[1])

\* the mask was set once and accepted although the prompt had been set before
MaskAcceptedAfterPrompt ==
    /\ ret.op = "set_encoded_prompt_mask"
    /\ ret.out.kind = "ok"
    /\ Len(hist.set_prompt) >= 1
    /\ Len(hist.set_mask) = 1

RejectedSet ==
    /\ ret'.op \in {"set_encoded_prompt", "set_encoded_prompt_mask"}
    /\ ret'.out.kind = "raise"

\* C7: once set, the prompt (and the prompt mask) reads the same until the
\* next reset(), whatever other operations run; a rejected second set leaves
\* the stored prompt and every other sequence of the buffer unchanged.
PromptFixedUntilReset ==
    [][ /\ (ret'.op # "reset" /\ encoded_prompt.kind = "tensor")
            => encoded_prompt' = encoded_prompt
        /\ (ret'.op # "reset" /\ encoded_prompt_mask.kind = "tensor")
            => encoded_prompt_mask' = encoded_prompt_mask
        /\ RejectedSet => bufvars' = bufvars ]_vars

\* the prompt is read back unchanged after an encoded observation was added
\* and a second set with another value was rejected
PromptReadAfterRejectedSet ==
    /\ ret.op = "encoded_prompt"
    /\ Len(hist.set_prompt) = 2
    /\ hist.set_prompt[1] # hist.set_prompt[2]
    /\ Len(hist.enc_obs) >= 1
    /\ ret.out = Returned(hist.set_prompt[1])

\* C8: reset() never raises and leaves the buffer as a freshly constructed
\* one: every sequence and both write-once fields are empty, so a second
\* reset() changes nothing.
ResetGivesFreshBuffer ==
    /\ cpc = "idle" => ENABLED Reset
    /\ ret.op = "reset" => (ret.out = Ok /\ BufferState = FreshBuffer)

\* reset() ran on a buffer that held the results of three calls
ResetOfFilledBuffer ==
    /\ ret.op = "reset"
    /\ ret.pre >= 3
    /\ BufferState = FreshBuffer

LeadingOnes(t) == Len(t.shape) >= 2 /\ t.shape[1] = 1 /\ t.shape[2] = 1

ActionTensors == [j \in 1..Len(hist.enc_act) |-> hist.enc_act[j].tensor]

ActionMasks == [j \in 1..Len(hist.enc_act) |-> hist.enc_act[j].mask]

AllLeadingOnes(ts) == \A j \in 1..Len(ts) : LeadingOnes(ts[j])

BatchOneStepK(out, k) ==
    /\ out.kind = "tensor"
    /\ Len(out.shape) >= 2
    /\ out.shape[1] = 1
    /\ out.shape[2] = k

\* C9 as stated: encoded_actions and encoded_actions_mask are None exactly
\* when no add_next_encoded_action call was made since construction or the
\* last reset(); after k >= 1 calls with tensors whose two leading axes have
\* size 1 each returns a tensor with batch axis 1 and step axis k.
ActionsAbsentOrStepPerCall ==
    /\ ret.op = "encoded_actions" =>
        /\ ret.out.kind = "none" <=> Len(hist.enc_act) = 0
        /\ (Len(hist.enc_act) >= 1 /\ AllLeadingOnes(ActionTensors))
            => BatchOneStepK(ret.out, Len(hist.enc_act))
    /\ ret.op = "encoded_actions_mask" =>
        /\ ret.out.kind = "none" <=> Len(hist.enc_act) = 0
        /\ (Len(hist.enc_act) >= 1 /\ AllLeadingOnes(ActionMasks))
            => BatchOneStepK(ret.out, Len(hist.enc_act))

\* C9 amended: the same, for tensors that also agree in rank; the read raises
\* when the ranks of the appended tensors differ.
ActionsAbsentOrStepPerCallOfOneRank ==
    /\ ret.op = "encoded_actions" =>
        /\ ret.out.kind = "none" <=> Len(hist.enc_act) = 0
        /\ (Len(hist.enc_act) >= 1 /\ AllLeadingOnes(ActionTensors))
            => IF EqualRank(ActionTensors)
               THEN BatchOneStepK(ret.out, Len(hist.enc_act))
               ELSE ret.out.kind = "raise"
    /\ ret.op = "encoded_actions_mask" =>
        /\ ret.out.kind = "none" <=> Len(hist.enc_act) = 0
        /\ (Len(hist.enc_act) >= 1 /\ AllLeadingOnes(ActionMasks))
            => IF EqualRank(ActionMasks)
               THEN BatchOneStepK(ret.out, Len(hist.enc_act))
               ELSE ret.out.kind = "raise"

\* encoded_actions was read after two calls with tensors of different feature
\* sizes and returned a tensor with batch axis 1 and step axis 2
ActionsReadAfterTwoCalls ==
    /\ ret.op = "encoded_actions"
    /\ Len(hist.enc_act) = 2
    /\ AllLeadingOnes(ActionTensors)
    /\ ActionTensors[1].shape # ActionTensors[2].shape
    /\ ret.out.kind = "tensor"
    /\ ret.out.shape = <<1, 2, LargeFeat>>

\* the shapes (1, 1, f)
IsStepTensor(t) == Len(t.shape) = 3 /\ t.shape[1] = 1 /\ t.shape[2] = 1

\* `out` has shape (1, k, max f_j); its step j holds ts[j] in positions
\* 0..f_j-1 and 0 in the others
PaddedPerStep(out, ts) ==
    /\ out.kind = "tensor"
    /\ Len(out.shape) = 3
    /\ out.shape[1] = 1
    /\ out.shape[2] = Len(ts)
    /\ \A j \in 1..Len(ts) : ts[j].shape[3] <= out.shape[3]
    /\ \E j \in 1..Len(ts) : ts[j].shape[3] = out.shape[3]
    /\ DOMAIN out.data = IndexSet(out.shape)
    /\ \A j \in 1..Len(ts) : \A x \in 0..(out.shape[3] - 1) :
        out.data[<<0, j - 1, x>>] =
            IF x < ts[j].shape[3] THEN ts[j].data[<<0, 0, x>>] ELSE 0

ObservationTensors == [j \in 1..Len(hist.enc_obs) |-> hist.enc_obs[j].tensor]

ObservationMasks == [j \in 1..Len(hist.enc_obs) |-> hist.enc_obs[j].mask]

\* C10: after k >= 1 add_next_encoded_observation calls with tensors of shapes
\* (1,1,f_j), encoded_observations has shape (1, k, max f_j) and its step j
\* holds the j-th tensor followed by zeros; encoded_observation_masks is
\* built from the masks in the same way.
ObservationsPaddedPerStep ==
    /\ (/\ ret.op = "encoded_observations"
        /\ Len(hist.enc_obs) >= 1
        /\ \A j \in 1..Len(hist.enc_obs) : IsStepTensor(ObservationTensors[j]))
        => PaddedPerStep(ret.out, ObservationTensors)
    /\ (/\ ret.op = "encoded_observation_masks"
        /\ Len(hist.enc_obs) >= 1
        /\ \A j \in 1..Len(hist.enc_obs) : IsStepTensor(ObservationMasks[j]))
        => PaddedPerStep(ret.out, ObservationMasks)

\* feature sizes small, large, small (5, 7, 5) were read back as (1, 3, 7)
ThreeObservationsRead ==
    /\ ret.op = "encoded_observations"
    /\ [j \in 1..Len(hist.enc_obs) |-> ObservationTensors[j].shape] =
        << <<1, 1, SmallFeat>>, <<1, 1, LargeFeat>>, <<1, 1, SmallFeat>> >>
    /\ ret.out.kind = "tensor"
    /\ ret.out.shape = <<1, 3, LargeFeat>>

\* C11: is_successful is true iff at least one success flag was appended via
\* update_success_tracker since construction or the last reset() and the most
\* recent one is true; with no flag it returns false and does not raise.
SuccessIsLastFlag ==
    ret.op = "is_successful" =>
        /\ ret.out = Ok
        /\ ret.flag <=> (/\ hist.success # <<>>
                         /\ hist.success[Len(hist.success)])

\* is_successful was read as false after the flags true, false
SuccessReadAfterTrueThenFalse ==
    /\ ret.op = "is_successful"
    /\ hist.success = <<TRUE, FALSE>>
    /\ ret.flag = FALSE

------------------------------------------------------------------------------
(* Claims about to_model_instance, checked under SpecEncoded *)

EncodingsStored ==
    /\ Len(hist.set_prompt) >= 1
    /\ Len(hist.set_mask) >= 1
    /\ Len(hist.enc_obs) >= 1

\* the six fields of the returned instance are what the accessors return
InstanceEqualsAccessors ==
    /\ ret.out = Ok
    /\ ret.instance.encoded_prompt = encoded_prompt
    /\ ret.instance.encoded_prompt_mask = encoded_prompt_mask
    /\ ret.instance.encoded_observations = encoded_observations
    /\ ret.instance.encoded_observations_mask = encoded_observation_masks
    /\ ret.instance.encoded_actions = encoded_actions
    /\ ret.instance.encoded_actions_mask = encoded_actions_mask
    /\ \A name \in {"encoded_prompt", "encoded_prompt_mask",
                    "encoded_observations", "encoded_observations_mask"} :
            ret.instance[name].kind = "tensor"
    /\ hist.enc_act = <<>> =>
            /\ ret.instance.encoded_actions = None
            /\ ret.instance.encoded_actions_mask = None

\* the stored tensors of each kind have one rank once their two leading axes
\* of size 1 are dropped
StoredOfOneRank ==
    /\ EqualRank(SqueezeEach(ObservationTensors))
    /\ EqualRank(SqueezeEach(ObservationMasks))
    /\ EqualRank(SqueezeEach(ActionTensors))
    /\ EqualRank(SqueezeEach(ActionMasks))

ModelInstanceLeavesBuffer ==
    ret'.op = "to_model_instance" => (bufvars' = bufvars /\ hist' = hist)

------------------------------------------------------------------------------
(* Further claims about ReplayBuffer, checked under Spec *)

\* the four accessors that collate, with the tensors appended for each
CollatingReads ==
    {"encoded_observations", "encoded_observation_masks", "encoded_actions",
     "encoded_actions_mask"}

AppendedFor(op) ==
    CASE op = "encoded_observations" -> ObservationTensors
      [] op = "encoded_observation_masks" -> ObservationMasks
      [] op = "encoded_actions" -> ActionTensors
      [] op = "encoded_actions_mask" -> ActionMasks

\* two of the tensors differ in shape along the axes after the batch axis
NonBatchShapesDiffer(ts) ==
    \E i, j \in 1..Len(ts) : Tail(ts[i].shape) # Tail(ts[j].shape)

\* the adds return without raising and store what they were given, whatever
\* was stored before
AddsStoreUnvalidated ==
    ret.op \in {"add_next_encoded_observation", "add_next_encoded_action"} =>
        /\ ret.out = Ok
        /\ _encoded_observations = ObservationTensors
        /\ _encoded_observation_masks = ObservationMasks
        /\ _encoded_actions = ActionTensors
        /\ _encoded_action_masks = ActionMasks

\* C13 as stated: the adds never raise and never validate; a read of the
\* corresponding accessor raises whenever the appended tensors do not all
\* have the same shape along the non-batch axes.
MismatchRaisesAtRead ==
    /\ AddsStoreUnvalidated
    /\ (ret.op \in CollatingReads /\ NonBatchShapesDiffer(AppendedFor(ret.op)))
        => ret.out.kind = "raise"

\* C13 (amended): the adds never raise and never validate; a read of the
\* corresponding accessor raises ValueError exactly when the appended tensors,
\* their leading axes of size 1 dropped, differ in rank, and returns the
\* padded tensor when only their extents differ.
RankMismatchRaisesAtRead ==
    /\ AddsStoreUnvalidated
    /\ (ret.op \in CollatingReads /\ AppendedFor(ret.op) # <<>>) =>
        IF EqualRank(SqueezeEach(AppendedFor(ret.op)))
        THEN ret.out.kind = "tensor"
        ELSE ret.out = Raised("ValueError")

\* two encoded observations of differing rank were both accepted and the read
\* that followed raised
ReadRaisedAfterAcceptedMismatch ==
    /\ ret.op = "encoded_observations"
    /\ Len(hist.enc_obs) = 2
    /\ _encoded_observations = ObservationTensors
    /\ Len(ObservationTensors[1].shape) # Len(ObservationTensors[2].shape)
    /\ ret.out = Raised("ValueError")

\* every exception a call raised has a cause among: a second set, a prompt
\* or mask that was never set, no encoded observation, stored tensors of
\* differing rank; none of them involves the raw observations
RaiseCause(op) ==
    \/ op = "set_encoded_prompt" /\ Len(hist.set_prompt) > 1
    \/ op = "set_encoded_prompt_mask" /\ Len(hist.set_mask) > 1
    \/ op = "encoded_prompt" /\ hist.set_prompt = <<>>
    \/ op = "encoded_prompt_mask" /\ hist.set_mask = <<>>
    \/ op \in {"encoded_observations", "encoded_observation_masks"}
        /\ hist.enc_obs = <<>>
    \/ op \in CollatingReads /\ ~EqualRank(SqueezeEach(AppendedFor(op)))

\* C14: the raw and the encoded observations are not kept in lockstep:
\* add_observation and add_next_encoded_observation each change their own
\* sequence only (each sequence holds exactly the arguments of its own adds
\* since construction or the last reset), nothing raises because the two
\* counts differ, and num_observations is the number of encoded observations.
NoLockstep ==
    /\ _observations = hist.obs
    /\ _encoded_observations = ObservationTensors
    /\ _encoded_observation_masks = ObservationMasks
    /\ ret.op = "num_observations" =>
        (ret.out = Ok /\ ret.count = Len(hist.enc_obs))
    /\ ret.out.kind = "raise" =>
        \/ RaiseCause(ret.op)
        \/ ret.op = "to_model_instance" /\
            \E op \in CollatingReads \cup {"encoded_prompt",
                                           "encoded_prompt_mask"} :
                RaiseCause(op)

\* num_observations was read as 1 while two raw observations were stored
CountsDifferAtRead ==
    /\ ret.op = "num_observations"
    /\ Len(_observations) = 2
    /\ Len(_encoded_observations) = 1
    /\ ret.count = 1

IsPrefix(s, t) == Len(s) <= Len(t) /\ \A i \in 1..Len(s) : t[i] = s[i]

\* the stored sequences, by name
StoredSequences == DOMAIN BufferState

\* the sequences an operation appends to
OwnSequences(op) ==
    CASE op = "add_observation" -> {"observations"}
      [] op = "add_action" -> {"actions"}
      [] op = "update_success_tracker" -> {"success_per_step"}
      [] op = "add_next_encoded_observation" ->
            {"encoded_observations", "encoded_observation_masks"}
      [] op = "add_next_encoded_action" ->
            {"encoded_actions", "encoded_action_masks"}
      [] OTHER -> {}

Appends ==
    {"add_observation", "add_action", "update_success_tracker",
     "add_next_encoded_observation", "add_next_encoded_action"}

ReadAccessors ==
    {"encoded_observations", "encoded_observation_masks", "encoded_actions",
     "encoded_actions_mask", "is_successful", "num_observations",
     "num_actions", "__len__"}

\* C15: between resets the buffer is append-only: a step of any operation but
\* reset() keeps the old content of every sequence as a prefix of the new;
\* an add_* or update_success_tracker call makes its own sequence(s) longer
\* by exactly one entry and leaves the others as they were; the read
\* accessors change nothing.
AppendOnlyBetweenResets ==
    [][ /\ ret'.op # "reset" =>
            \A f \in StoredSequences : IsPrefix(BufferState[f], BufferState'[f])
        /\ ret'.op \in Appends =>
            \A f \in StoredSequences :
                IF f \in OwnSequences(ret'.op)
                THEN Len(BufferState'[f]) = Len(BufferState[f]) + 1
                ELSE BufferState'[f] = BufferState[f]
        /\ ret'.op \in ReadAccessors => bufvars' = bufvars ]_vars

\* an encoded action was appended behind an earlier one while raw and encoded
\* observations were stored
SecondActionAppended ==
    /\ ret.op = "add_next_encoded_action"
    /\ Len(_encoded_actions) = 2
    /\ Len(_encoded_action_masks) = 2
    /\ Len(_encoded_observations) = 1

\* C19: only the action accessors signal absence: with no encoded observation
\* appended since construction or the last reset(), a read of
\* encoded_observations or of encoded_observation_masks, and with them
\* to_model_instance, raises instead of returning None or an empty tensor,
\* while the action accessors return None when no action was appended; the
\* failed read leaves the buffer as it was.
ObservationReadsRaiseWhenEmpty ==
    /\ [](/\ (/\ ret.op \in {"encoded_observations",
                             "encoded_observation_masks", "to_model_instance"}
              /\ hist.enc_obs = <<>>)
              => ret.out.kind = "raise"
          /\ (/\ ret.op \in {"encoded_actions", "encoded_actions_mask"}
              /\ hist.enc_act = <<>>)
              => ret.out = None)
    /\ [][(/\ ret'.op \in CollatingReads \cup {"to_model_instance"}
           /\ ret'.out.kind = "raise")
            => (bufvars' = bufvars /\ hist' = hist)]_vars

\* the observations were read from a buffer that holds a prompt, its mask and
\* an encoded action but no encoded observation: IndexError
ObservationsReadFromEmpty ==
    /\ ret.op = "encoded_observations"
    /\ hist.enc_obs = <<>>
    /\ _encoded_prompt # <<>>
    /\ _encoded_prompt_mask # <<>>
    /\ _encoded_actions # <<>>
    /\ ret.out = Raised("IndexError")

------------------------------------------------------------------------------
(* Claims about the composite collators, checked under SpecBatch *)

\* out is a tensor with the batch axis in front, every other axis as long as
\* the longest of ts on that axis, and every tensor of ts in input order in
\* the low-index corner of its slot
IsStackOf(out, ts) ==
    /\ out.kind = "tensor"
    /\ Len(out.shape) = Len(ts[1].shape) + 1
    /\ out.shape[1] = Len(ts)
    /\ \A a \in 1..Len(ts[1].shape) :
        out.shape[a + 1] = SeqMax([i \in 1..Len(ts) |-> ts[i].shape[a]])
    /\ \A i \in 1..Len(ts) : \A idx \in IndexSet(ts[i].shape) :
        out.data[<<i - 1>> \o idx] = ts[i].data[idx]

\* every position of out outside the tensor it was built from holds pad
IsPaddedWith(out, ts, pad) ==
    \A idx \in IndexSet(out.shape) :
        ~InExtents(Tail(idx), ts[idx[1] + 1].shape) => out.data[idx] = pad

Returns(op) == collated.op = op /\ collated.kind = "batched"

ActionBatches == [i \in 1..Len(batch) |-> batch[i].actions]

CollatorPadValues ==
    /\ Returns("collate_action_batch") =>
        \A pose_action_type \in DOMAIN collated.value :
            IsPaddedWith(collated.value[pose_action_type],
                         [i \in 1..Len(batch) |->
                                ActionBatches[i][pose_action_type]],
                         IF padding_value.given THEN padding_value.value
                         ELSE -100)
    /\ Returns("collate_object_features") =>
        \A name \in DOMAIN collated.value :
            \A view \in DOMAIN collated.value[name] :
                IsPaddedWith(collated.value[name][view],
                             LeavesOf(ImageBatches, name, view), 0)
    /\ Returns("collate_rgb_images") =>
        \A view \in DOMAIN collated.value :
            IsPaddedWith(collated.value[view],
                [i \in 1..Len(batch) |-> batch[i].image_batch.rgb[view]], 0)
    /\ Returns("collate_observation_batch") =>
        IsPaddedWith(collated.value.ee,
                     [i \in 1..Len(batch) |-> batch[i].observations.ee], 0)
    /\ Returns("collate_preprocessed_instances") =>
        /\ \A pose_action_type \in DOMAIN collated.value.actions :
            IsPaddedWith(collated.value.actions[pose_action_type],
                         [i \in 1..Len(batch) |->
                                ActionBatches[i][pose_action_type]], -100)
        /\ \A name \in {"bbox", "cropped_img", "mask"} :
            \A view \in {"front", "top"} :
                /\ IsPaddedWith(collated.value.image_batch[name][view],
                                LeavesOf(ImageBatches, name, view), 0)
                /\ IsPaddedWith(collated.value.observations.objects[name][view],
                        [i \in 1..Len(batch) |->
                            batch[i].observations.objects[name][view]], 0)
        /\ \A view \in {"front", "top"} :
                /\ IsPaddedWith(collated.value.image_batch.rgb[view],
                        [i \in 1..Len(batch) |->
                            batch[i].image_batch.rgb[view]], 0)
                /\ IsPaddedWith(collated.value.observations.rgb[view],
                        [i \in 1..Len(batch) |->
                            batch[i].observations.rgb[view]], 0)
        /\ IsPaddedWith(collated.value.observations.ee,
                [i \in 1..Len(batch) |-> batch[i].observations.ee], 0)

\* instances of 2 steps and of 1 step were collated without a pad value: the
\* second step of the second instance is -100 in an action and 0 in ee
InstancesPaddedByDefault ==
    /\ Returns("collate_preprocessed_instances")
    /\ Len(batch) = 2
    /\ batch[1].actions.pose0_position.shape = <<2, 1>>
    /\ batch[2].actions.pose0_position.shape = <<1, 1>>
    /\ collated.value.actions.pose0_position.data[<<1, 1, 0>>] = -100
    /\ collated.value.observations.ee.data[<<1, 1>>] = 0

RECURSIVE SumOfLens(_)
SumOfLens(lists) ==
    IF lists = <<>> THEN 0 ELSE Len(Head(lists)) + SumOfLens(Tail(lists))

TokenTypes == [i \in 1..Len(batch) |-> batch[i].raw_prompts_token_type]

\* C18: for N instances the task list has N entries in instance order;
\* raw_prompts_token_type is the per-instance lists one after the other in
\* instance order, flattened by one level, so it is as long as the lists
\* together; word_batch has the N instances on axis 0, every instance's
\* tokens first on axis 1 and zeros up to the longest sequence.
InstanceOrderKept ==
    Returns("collate_preprocessed_instances") =>
        /\ Len(collated.value.task) = Len(batch)
        /\ \A i \in 1..Len(batch) : collated.value.task[i] = batch[i].task
        /\ Len(collated.value.raw_prompts_token_type) = SumOfLens(TokenTypes)
        /\ \A i \in 1..Len(batch) : \A k \in 1..Len(TokenTypes[i]) :
            collated.value.raw_prompts_token_type[
                SumOfLens(SubSeq(TokenTypes, 1, i - 1)) + k] = TokenTypes[i][k]
        /\ collated.value.word_batch.kind = "tensor"
        /\ collated.value.word_batch.shape =
            <<Len(batch), SeqMax([i \in 1..Len(batch) |->
                                    batch[i].word_batch.shape[1]])>>
        /\ \A i \in 1..Len(batch) :
            \A t \in 0..(collated.value.word_batch.shape[2] - 1) :
                collated.value.word_batch.data[<<i - 1, t>>] =
                    IF t < batch[i].word_batch.shape[1]
                    THEN batch[i].word_batch.data[<<t>>]
                    ELSE 0

\* two instances with 2 and 3 prompts and 3 and 2 word tokens: five token
\* type lists and a word batch of shape (2, 3)
TwoInstancesFlattened ==
    /\ Returns("collate_preprocessed_instances")
    /\ Len(batch) = 2
    /\ Len(batch[1].raw_prompts_token_type) = 2
    /\ Len(batch[2].raw_prompts_token_type) = 3
    /\ Len(collated.value.raw_prompts_token_type) = 5
    /\ collated.value.word_batch.shape = <<2, 3>>
    /\ collated.value.word_batch.data[<<1, 2>>] = 0

------------------------------------------------------------------------------
(* Claims about VIMAInstanceParser, checked under SpecParse *)

RawActions == Len(instance_dir.actions)
RawObservations == Len(instance_dir.observations)

\* C20: parse_from_instance_dir returns an instance only when it holds as
\* many observations as pose actions, and raises ValueError when the two
\* numbers differ.  With keep_null_action = False the observations are the
\* first num_pose_actions of the raw ones, so the ValueError is raised iff
\* the raw data holds fewer observations than actions; with keep_null_action
\* = True one null action follows the raw ones and every observation is
\* kept, so it is raised iff the raw observations are not one more than the
\* raw actions.
InstanceOnlyWhenCountsAgree ==
    cpc = "parsed" =>
        /\ parsed.kind = "instance" =>
            Len(parsed.value.observations) = Len(parsed.value.pose_actions)
        /\ ~keep_null_action =>
            /\ parsed = ParseRaised("ValueError")
                <=> RawObservations < RawActions
            /\ parsed.kind = "instance" =>
                /\ Len(parsed.value.pose_actions) = RawActions
                /\ \A k \in 1..RawActions :
                    /\ parsed.value.observations[k].frame =
                            instance_dir.observations[k]
                    /\ parsed.value.pose_actions[k].pose =
                            instance_dir.actions[k]
        /\ keep_null_action =>
            /\ parsed = ParseRaised("ValueError")
                <=> RawObservations # RawActions + 1
            /\ parsed.kind = "instance" =>
                /\ Len(parsed.value.pose_actions) = RawActions + 1
                /\ parsed.value.pose_actions[RawActions + 1] = NullAction
                /\ \A k \in 1..RawActions :
                        ~parsed.value.pose_actions[k].null
                /\ Len(parsed.value.observations) = RawObservations

\* raw data with two actions and three observations, parsed without the null
\* action: the instance holds the first two observations
ObservationsTruncated ==
    /\ cpc = "parsed"
    /\ ~keep_null_action
    /\ RawActions = 2
    /\ RawObservations = 3
    /\ parsed.kind = "instance"
    /\ Len(parsed.value.observations) = 2

------------------------------------------------------------------------------
(* Claims about _parse_success_per_step, checked under SpecParse *)

\* the number of pose actions parse_from_instance_dir passes as num_actions
NumActionsPassed == Len(_parse_pose_actions(instance_dir))

\* parse_from_instance_dir got as far as calling _parse_success_per_step
SuccessPerStepCalled ==
    /\ cpc = "parsed"
    /\ parsed # ParseRaised("ValueError")

\* the list the docstring describes: the last entry is the success flag, the
\* one before it too when the null action is kept, every other one is False
TrackerOf(n, success) ==
    [k \in 1..n |->
        success /\ (k = n \/ (keep_null_action /\ k = n - 1))]

\* C21 as stated: for every num_actions >= 1 and either keep_null_action the
\* call returns a list of num_actions booleans, all False on failure, the
\* last (and with keep_null_action the second-to-last) True on success.
SuccessPerStepForEveryLength ==
    (SuccessPerStepCalled /\ NumActionsPassed >= 1) =>
        /\ parsed.kind = "instance"
        /\ parsed.value.success_per_step =
                TrackerOf(NumActionsPassed, instance_dir.success)

\* C21: _parse_success_per_step returns a list of exactly num_actions
\* booleans, all False when is_successful_at_end is false, and otherwise with
\* the last entry True, the second-to-last True as well when keep_null_action
\* is set, and every other entry False, provided the list is long enough
\* for the entries it sets: num_actions >= 1, and num_actions >= 2 when
\* keep_null_action is set and the trajectory was successful.  For a
\* successful trajectory with keep_null_action and num_actions = 1 the
\* assignment tracker[-2] raises IndexError and no list is returned.
SuccessPerStepWhenLongEnough ==
    (SuccessPerStepCalled /\ NumActionsPassed >= 1) =>
        IF instance_dir.success /\ keep_null_action /\ NumActionsPassed = 1
        THEN parsed = ParseRaised("IndexError")
        ELSE /\ parsed.kind = "instance"
             /\ Len(parsed.value.success_per_step) = NumActionsPassed
             /\ \A k \in 1..NumActionsPassed :
                    parsed.value.success_per_step[k] =
                        /\ instance_dir.success
                        /\ \/ k = NumActionsPassed
                           \/ keep_null_action /\ k = NumActionsPassed - 1

\* a successful trajectory of two raw actions parsed with the null action:
\* three steps, the last two marked successful
LastTwoStepsSuccessful ==
    /\ cpc = "parsed"
    /\ keep_null_action
    /\ instance_dir.success
    /\ RawActions = 2
    /\ parsed.kind = "instance"
    /\ parsed.value.success_per_step = <<FALSE, TRUE, TRUE>>

------------------------------------------------------------------------------
(* Claims about randomise_non_special_aspects_in_sequence, checked under
   SpecShuffle *)

\* how often a word occurs at the non-special positions of a sequence
NonSpecialCount(sequence, word) ==
    Cardinality({i \in 1..Len(sequence) :
                    sequence[i] = word /\ sequence[i] \notin is_special_fn})

\* C22: for every input sequence, every is_special_fn and every outcome of
\* the shuffle, the call returns a sequence of the same length in which
\* every special element is at its original index and the non-special
\* elements are the input's non-special elements with the same
\* multiplicities; the input list is the same after the call.
SpecialsStayOthersPermuted ==
    [][cpc = "shuffle" =>
        /\ word_sequence' = word_sequence
        /\ Len(shuffled_sequence') = Len(word_sequence)
        /\ \A i \in 1..Len(word_sequence) :
            /\ word_sequence[i] \in is_special_fn =>
                    shuffled_sequence'[i] = word_sequence[i]
            /\ word_sequence[i] \notin is_special_fn =>
                    shuffled_sequence'[i] \notin is_special_fn
        /\ \A word \in Words :
                NonSpecialCount(shuffled_sequence', word) =
                    NonSpecialCount(word_sequence, word)]_vars

\* two different words around a placeholder change places and the
\* placeholder stays in the middle
WordsSwappedAroundPlaceholder ==
    /\ cpc = "shuffled"
    /\ is_special_fn = {"{obj}"}
    /\ word_sequence = <<"put", "{obj}", "the">>
    /\ shuffled_sequence = <<"the", "{obj}", "put">>

------------------------------------------------------------------------------
(* Claims about _get_new_token_sequence_for_word, checked under SpecTokens *)

\* the sequences the memory holds for a tokenized word, none when the word
\* is not a key
RememberedFor(memory, tokenized_word) ==
    IF tokenized_word \in DOMAIN memory THEN memory[tokenized_word] ELSE {}

\* the memory holds for every word exactly the sequences returned for it
MemoryIsWhatWasReturned ==
    /\ DOMAIN returned_for \subseteq DOMAIN _tokenized_word_memory
    /\ \A tokenized_word \in DOMAIN _tokenized_word_memory :
            _tokenized_word_memory[tokenized_word] =
                RememberedFor(returned_for, tokenized_word)

\* one call: at most timeout + 1 attempts; a sequence from an attempt is the
\* one of the only attempt that did not raise, the last one made; the memory
\* is consulted after exactly timeout + 1 failed attempts, gives a sequence
\* it held for the word before the call, and RuntimeError is raised iff it
\* held none; a returned sequence is added for the word and nothing else
\* changes in the memory
CallRetriesThenRemembers ==
    LET end == new_token_sequence'
        held == RememberedFor(_tokenized_word_memory, end.word)
    IN  /\ end.attempts <= _timeout + 1
        /\ end.source \in {"attempt", "memory"}
        /\ end.source = "attempt" =>
            /\ end.kind = "return"
            /\ end.attempts >= 1
        /\ end.source = "memory" =>
            /\ end.attempts = _timeout + 1
            /\ end.kind = "return" => end.value \in held
            /\ end.kind = "raise" <=> held = {}
        /\ end.kind = "raise" =>
            /\ end.exc = "RuntimeError"
            /\ end.source = "memory"
        /\ DOMAIN _tokenized_word_memory' =
                DOMAIN _tokenized_word_memory \cup {end.word}
        /\ _tokenized_word_memory'[end.word] =
                held \cup (IF end.kind = "return" THEN {end.value} ELSE {})
        /\ \A other \in DOMAIN _tokenized_word_memory \ {end.word} :
                _tokenized_word_memory'[other] = _tokenized_word_memory[other]

\* C23: _get_new_token_sequence_for_word makes at most timeout + 1
\* randomisation attempts and returns the first one that does not raise
\* WordTooLongError; after timeout + 1 failed attempts it returns a sequence
\* the memory already held for the same tokenized word and raises
\* RuntimeError iff the memory held none; every returned sequence is recorded
\* in the memory for that word, so the memory for a word holds only
\* sequences that were returned for it.
BoundedRetriesThenMemory ==
    /\ []MemoryIsWhatWasReturned
    /\ [][CallRetriesThenRemembers]_vars

\* with timeout = 1 a call whose two attempts both failed returned the
\* sequence an earlier call had recorded for the word
ReturnedFromMemoryAfterTimeout ==
    /\ cpc = "tokens"
    /\ _timeout = 1
    /\ new_token_sequence # <<>>
    /\ new_token_sequence.word = <<1, 2>>
    /\ new_token_sequence.source = "memory"
    /\ new_token_sequence.attempts = 2
    /\ new_token_sequence.kind = "return"
    /\ new_token_sequence.value = <<2, 1>>
    /\ _tokenized_word_memory[<<1, 2>>] = {<<2, 1>>}

------------------------------------------------------------------------------
(* Claims about the buffer's paired lists, checked under Spec *)

\* C24: in every reachable state of the buffer the stored encoded
\* observations are as many as the stored observation masks and the stored
\* encoded actions as many as the stored action masks, each as many as the
\* add_next_encoded_observation / add_next_encoded_action calls made since
\* construction or the last reset(); so encoded_actions is None iff
\* encoded_actions_mask is None, and len(buffer) and num_actions are the
\* number of add_next_encoded_action calls.
EncodingsAndMasksPaired ==
    BufferInUse =>
        /\ Len(_encoded_observations) = Len(hist.enc_obs)
        /\ Len(_encoded_observation_masks) = Len(hist.enc_obs)
        /\ Len(_encoded_actions) = Len(hist.enc_act)
        /\ Len(_encoded_action_masks) = Len(hist.enc_act)
        /\ (encoded_actions = None) <=> (encoded_actions_mask = None)
        /\ (encoded_actions = None) <=> (Len(hist.enc_act) = 0)
        /\ __len__ = Len(hist.enc_act)
        /\ num_actions = Len(hist.enc_act)

\* after two add_next_encoded_action calls and one
\* add_next_encoded_observation call len(buffer) was read as 2
TwoActionsOneObservationCounted ==
    /\ cpc = "idle"
    /\ Len(hist.enc_act) = 2
    /\ Len(hist.enc_obs) = 1
    /\ Len(_encoded_action_masks) = 2
    /\ Len(_encoded_observation_masks) = 1
    /\ encoded_actions_mask # None
    /\ ret.op = "__len__"
    /\ ret.count = 2

------------------------------------------------------------------------------
(* Claims about update_vima_instance, checked under Spec *)

\* C25: update_vima_instance writes total_steps as the number of encoded
\* actions appended since the last reset() (len(buffer)) and pose_actions as
\* the list of the raw actions added with add_action, the i-th of them
\* (0-based) carrying index i; so total_steps is the number of pose_actions
\* written iff add_action and add_next_encoded_action were called equally
\* often since the last reset(); is_successful_at_end written is
\* is_successful.
TotalStepsCountEncodedActions ==
    (BufferInUse /\ ret.op = "update_vima_instance") =>
        /\ ret.vima_instance.total_steps = Len(hist.enc_act)
        /\ ret.vima_instance.total_steps = __len__
        /\ Len(ret.vima_instance.pose_actions) = Len(hist.act)
        /\ \A i \in 1..Len(hist.act) :
            /\ ret.vima_instance.pose_actions[i].index = i - 1
            /\ ret.vima_instance.pose_actions[i].pose = hist.act[i].pose
        /\ (ret.vima_instance.total_steps =
                Len(ret.vima_instance.pose_actions))
            <=> (Len(hist.act) = Len(hist.enc_act))
        /\ ret.vima_instance.is_successful_at_end = is_successful

\* two add_action calls and one add_next_encoded_action call: the instance
\* is written with two pose actions, indexed 0 and 1, and total_steps = 1
TotalStepsBelowPoseActions ==
    /\ cpc = "idle"
    /\ ret.op = "update_vima_instance"
    /\ Len(hist.act) = 2
    /\ Len(hist.enc_act) = 1
    /\ ret.vima_instance.total_steps = 1
    /\ Len(ret.vima_instance.pose_actions) = 2
    /\ ret.vima_instance.pose_actions[2].index = 1
    /\ ret.vima_instance.task = "stack"

==============================================================================
